---- MODULE Spec2Model ----
(***************************************************************************)
(* One question-answer exchange of the NAU assistant backend:              *)
(* NAUAssistant.process_query (assistant.py) with the query router         *)
(* (query_router.py), the routed search (database.py) and the result       *)
(* validator (result_validator.py).                                        *)
(*                                                                         *)
(* Text is a sequence of words (a Python str whose words are joined by one *)
(* blank); a keyword is itself a sequence of words, since a keyword may    *)
(* hold a blank ("kerivnyk kafedry").  Words are written in ASCII          *)
(* transliteration: "hto" is "хто", "dekan" is "декан", "FKNT" is "ФКНТ".  *)
(* Confidences are hundredths (30 is 0.3).                                 *)
(*                                                                         *)
(* The reasoning service answers every call with one of four kinds:        *)
(*   "ok"        a response from which a JSON object is parsed,            *)
(*   "malformed" a response from which no JSON object is parsed,           *)
(*   "http"      a status other than 200 (LM Studio backend only),         *)
(*   "exc"       the call raises (unreachable, timeout, ...).              *)
(* The two backends (settings.USE_GEMINI) share the retry structure; the   *)
(* model takes the union of their behaviours.  A parsed verdict has the    *)
(* types the dataclass declares, except that its selected_indices may hold *)
(* an element that is no integer.                                          *)
(***************************************************************************)
EXTENDS Integers, Sequences, FiniteSets, TLC

VARIABLES
    message,              \* process_query: the user's question
    history,              \* process_query: messages (the dialogue so far)
    group_name,           \* process_query: group_name ("None" when absent)
    use_gemini,           \* settings.USE_GEMINI: the reasoning-service backend
    request_history,      \* _llm_routing: the history messages put in the request
    pc,                   \* position in process_query
    check_kind,           \* how the availability probe of check_lm_studio ended
    route_decision,       \* process_query: the RouteDecision
    route_path,           \* "none" | "llm" | "heuristic": which path built it
    route_attempt,        \* _llm_routing: attempt
    route_kind,           \* _llm_routing: kind of the last response
    route_missing,        \* _llm_routing: the fields the parsed object lacked
    attempt,              \* _search_with_validation: attempt
    current_query,        \* _search_with_validation: current_query
    query_origin,         \* which assignment produced current_query
    enhanced_query,       \* search_with_route: enhanced_query (the text encoded)
    raw_results,          \* _search_with_validation: raw_results
    search_kind,          \* _route_aware_search: how the last search ended
    call,                 \* a call of a function of the search layer: its arguments
    call_pc,              \* "none" | "called" | "returned"
    returned,             \* the value that call returned
    manager,              \* ScheduleManager: a load_group_schedule call and what the cache stores
    cached_schedules,     \* ScheduleManager.cached_schedules: the groups it holds
    exchanges,            \* the process_query calls in progress on one assistant
    fallback,             \* _fallback_response: the text it returned, what it called
    retry_attempt,        \* _llm_validation: retry_attempt
    val_kind,             \* _llm_validation: kind of the last response
    validation_decision,  \* _search_with_validation: validation_decision
    selected_results,     \* _search_with_validation: selected_results
    context_results,      \* process_query: context_results (the evidence)
    outcome,              \* terminal state of the retrieval loop
    response,             \* what process_query returns
    searches,             \* number of search_with_route calls
    empty_searches,       \* number of them that returned no hit
    validations,          \* number of validate_and_select calls
    llm_calls             \* reasoning-service calls made by the validator

vars == <<call, call_pc, returned, manager, cached_schedules, exchanges, fallback, use_gemini, message, history, group_name, request_history, route_missing, pc, check_kind, route_decision, route_path, route_attempt,
          route_kind, attempt, current_query, query_origin, enhanced_query,
          raw_results, search_kind, retry_attempt, val_kind, validation_decision,
          selected_results, context_results, outcome, response, searches,
          empty_searches, validations, llm_calls>>

-----------------------------------------------------------------------------
(* Program constants *)

MAX_ATTEMPTS_OffByOne == 3 + 1
MAX_ATTEMPTS == 3

llm_routing_max_retries == 3

llm_validation_max_retries == 3

validator_max_retries == 2

top_k == 15

\* _heuristic_routing: history[-6:]
history_window == 6

\* _generate_enhancement_keywords: [:5]
max_keywords == 5

(* Bound of the model: the largest hit list a search returns *)
MaxHits == 4

\* length of the longest dialogue history of the model
MaxHistory == 7

\* the longest embedding and keyword lists that are enumerated in full
MaxFused == 2

\* the longest list of routed hits that is enumerated in full
MaxRouted == 2

-----------------------------------------------------------------------------
(* Text helpers *)

Range(s) == {s[i] : i \in 1..Len(s)}

RECURSIVE Flatten(_)
Flatten(ss) == IF ss = <<>> THEN <<>> ELSE Head(ss) \o Flatten(Tail(ss))

\* str.lower() on one word
Lower(w) ==
    CASE w = "FKNT" -> "fknt"
      [] w = "IPZ" -> "ipz"
      [] w = "FAET" -> "faet"
      [] OTHER -> w

\* the fixed pattern words (greeting, interrogative, intent, synonym keys)
\* that are substrings of the lowercased word
WordPatterns(w) ==
    CASE Lower(w) = "hi" -> {"hi"}
      [] Lower(w) = "hto" -> {"hto"}
      [] Lower(w) = "dekan" -> {"de"}
      [] Lower(w) = "informatsiya" -> {"informats"}
      [] Lower(w) = "vstup" -> {"vstup"}
      [] Lower(w) = "kontakty" -> {"kontakt", "kontakty"}
      [] Lower(w) = "dyakuyu" -> {"dyakuyu", "yak"}
      [] OTHER -> {}

\* pattern in text.lower(), for a one-word pattern
Contains(text, pattern) == \E i \in 1..Len(text) : pattern \in WordPatterns(text[i])

ContainsAny(text, patterns) == \E p \in patterns : Contains(text, p)

\* list(set(...))[:n]: the first n elements of S in any of the orders in
\* which the set may be enumerated (the order of a set of str is fixed by the
\* hash seed of the interpreter process)
ListOfSet(S, n) ==
    LET k == IF Cardinality(S) < n THEN Cardinality(S) ELSE n
    IN  {s \in [1..k -> S] : \A i, j \in 1..k : i # j => s[i] # s[j]}

-----------------------------------------------------------------------------
(* Inputs of the model *)

\* "hi" and "хто декан"
Messages == {<<"hi">>, <<"hto", "dekan">>}

\* the questions on which the router alone is exercised
RouterMessages ==
    Messages \cup {<<"hi", "dekan">>, <<"hi", "FKNT", "IPZ", "FAET">>,
                   <<"IPZ", "kontakty">>}

\* a question in which two keys of the synonym table occur ("вступ контакти")
TwoKeyMessage == <<"vstup", "kontakty">>

\* a greeting that has an interrogative word as a substring ("дякую", "як")
ThanksMessage == <<"dyakuyu">>

Msg(role, content) == [role |-> role, content |-> content]

\* a dialogue longer than the window of the heuristic path: it opens with a
\* faculty, ends with the question "hto dekan" and names nothing in between
LongHistory ==
    [i \in 1..MaxHistory |->
        IF i = 1 THEN Msg("user", <<"FAET">>)
        ELSE IF i = MaxHistory THEN Msg("user", <<"hto", "dekan">>)
        ELSE Msg(IF i % 2 = 1 THEN "user" ELSE "assistant", <<"dekan">>)]

Histories ==
    {<<>>,
     <<Msg("user", <<"hto", "dekan", "FKNT">>), Msg("assistant", <<"dekan">>)>>,
     <<Msg("user", <<"FAET">>), Msg("assistant", <<"dekan", "IPZ">>)>>,
     LongHistory}

\* no group, a group of a technical faculty ("ІР-21"), another group
GroupNames == {"None", "ir-21", "ab-11"}

\* the (question, history, group) triples on which the router alone is exercised
RouterInputs ==
    (RouterMessages \X Histories \X GroupNames)
        \cup {<<TwoKeyMessage, <<>>, "None">>, <<ThanksMessage, <<>>, "None">>}

\* enhancement_keywords a parsed routing response may carry
LlmKeywordChoices ==
    {<<>>, <<<<"dekan">>, <<"kerivnyk", "kafedry">>, <<"FKNT">>>>}

\* reformulated_query values of a parsed verdict; <<>> is null or ""
ReformulatedChoices == {<<>>, <<"dekan", "fknt">>, <<"kerivnyk">>}

\* selected_indices values of a parsed verdict (1-based, possibly out of range)
SelectedChoices == {<<>>, <<1>>, <<0, 2, MaxHits + 1>>, <<MaxHits + 1>>}

\* how many hits the store may return to _route_aware_search, which asks for
\* top_k * 5 of them
SearchHitCounts == {n \in {0, 1, MaxHits, top_k + 1} : n <= top_k * 5}

CallKinds == {"ok", "malformed", "http", "exc"}

\* a routing response may also be "partial": a JSON object is parsed from it
\* that lacks some of the fields of a RouteDecision
RoutingCallKinds == CallKinds \cup {"partial"}

\* outcomes of the availability probe: a usable answer, an unusable one, an exception
CheckKinds == {"ok", "bad", "exc"}

-----------------------------------------------------------------------------
(* Query router *)

NoRoute ==
    [search_scope |-> "global", search_level |-> "general", target_entity |-> "None",
     search_intent |-> "info", enhancement_keywords |-> <<>>, confidence |-> 0,
     needs_database_search |-> FALSE]

\* the RouteDecision built from a parsed response
LlmRouteDecision(keywords, needs_search) ==
    [search_scope |-> "global", search_level |-> "general", target_entity |-> "None",
     search_intent |-> "info", enhancement_keywords |-> keywords, confidence |-> 85,
     needs_database_search |-> needs_search]

\* a RouteDecision whose search_level, search_intent and confidence are
\* outside the documented values: the pydantic model declares str and float
\* and constrains neither
UnconstrainedRouteDecision ==
    [search_scope |-> "global", search_level |-> "person", target_entity |-> "None",
     search_intent |-> "chat", enhancement_keywords |-> <<>>, confidence |-> 150,
     needs_database_search |-> FALSE]

LlmRouteDecisions ==
    {LlmRouteDecision(k, b) : k \in LlmKeywordChoices, b \in BOOLEAN}
        \cup {UnconstrainedRouteDecision}

\* the defaults of parsed.get(field, default)
RouteDefaults ==
    [search_scope |-> "global", search_level |-> "general", target_entity |-> "None",
     search_intent |-> "info", enhancement_keywords |-> <<>>, confidence |-> 50,
     needs_database_search |-> TRUE]

RouteFields == DOMAIN RouteDefaults

\* the fields a parsed JSON object may lack
MissingFieldChoices ==
    {{"search_level"}, {"search_intent", "confidence"}, RouteFields}

\* RouteDecision(search_scope=parsed.get("search_scope", "global"), ...) for a
\* parsed object that holds the fields of values other than those in missing
RouteDecisionFromParsed(values, missing) ==
    [f \in RouteFields |-> IF f \in missing THEN RouteDefaults[f] ELSE values[f]]

\* extract_entities_from_text (nau_structure): the faculties and departments
\* whose alias is a word of the text, in the order of the text
IsAlias(w) == w \in {"FKNT", "FAET", "IPZ"}

EntityOfAlias(w) ==
    CASE w = "FKNT" -> [type |-> "faculty", code |-> "FKNT", faculty_code |-> "FKNT"]
      [] w = "FAET" -> [type |-> "faculty", code |-> "FAET", faculty_code |-> "FAET"]
      [] w = "IPZ" -> [type |-> "department", code |-> "IPZ", faculty_code |-> "FKNT"]

ExtractEntitiesFromText(text) ==
    LET aliases == SelectSeq(text, IsAlias)
    IN  [i \in 1..Len(aliases) |-> EntityOfAlias(aliases[i])]

\* history[-6:] if len(history) > 6 else history
RecentHistory(h) ==
    IF Len(h) > history_window THEN SubSeq(h, Len(h) - history_window + 1, Len(h)) ELSE h

\* " ".join([msg["content"] for msg in recent_history])
HistoryText(h) == Flatten([i \in 1..Len(h) |-> h[i].content])

\* context_scope and context_entity
HistoryContext(h) ==
    LET history_entities == ExtractEntitiesFromText(HistoryText(RecentHistory(h)))
        last_entity == history_entities[Len(history_entities)]
    IN  IF history_entities = <<>>
        THEN [scope |-> "None", entity |-> "None"]
        ELSE IF last_entity.type = "faculty"
             THEN [scope |-> last_entity.code, entity |-> "None"]
             ELSE [scope |-> last_entity.faculty_code, entity |-> last_entity.code]

\* any(x in group_name.upper() for x in ["ІР", "КІТ", "КІ", "ПМ", "КБ"])
GroupMatches(g) == g \in {"ir-21"}

HeuristicScopeHistoryFirst(query, h, g) ==
    LET entities == ExtractEntitiesFromText(query)
        context == HistoryContext(h)
    IN  IF context.scope # "None"
        THEN IF context.entity # "None"
             THEN [search_scope |-> context.scope, search_level |-> "department",
                   target_entity |-> context.entity, confidence |-> 75]
             ELSE [search_scope |-> context.scope, search_level |-> "faculty",
                   target_entity |-> "None", confidence |-> 70]
        ELSE IF entities # <<>>
        THEN IF entities[1].type = "faculty"
             THEN [search_scope |-> entities[1].code, search_level |-> "faculty",
                   target_entity |-> "None", confidence |-> 95]
             ELSE [search_scope |-> entities[1].faculty_code,
                   search_level |-> "department",
                   target_entity |-> entities[1].code, confidence |-> 98]
        ELSE IF g # "None" /\ GroupMatches(g)
        THEN [search_scope |-> "FKNT", search_level |-> "faculty",
              target_entity |-> "None", confidence |-> 60]
        ELSE [search_scope |-> "global", search_level |-> "general",
              target_entity |-> "None", confidence |-> 50]

\* scope, level, target entity and the local variable confidence
HeuristicScope(query, h, g) ==
    LET entities == ExtractEntitiesFromText(query)
        context == HistoryContext(h)
    IN  IF entities # <<>>
        THEN IF entities[1].type = "faculty"
             THEN [search_scope |-> entities[1].code, search_level |-> "faculty",
                   target_entity |-> "None", confidence |-> 95]
             ELSE [search_scope |-> entities[1].faculty_code,
                   search_level |-> "department",
                   target_entity |-> entities[1].code, confidence |-> 98]
        ELSE IF context.scope # "None"
        THEN IF context.entity # "None"
             THEN [search_scope |-> context.scope, search_level |-> "department",
                   target_entity |-> context.entity, confidence |-> 75]
             ELSE [search_scope |-> context.scope, search_level |-> "faculty",
                   target_entity |-> "None", confidence |-> 70]
        ELSE IF g # "None" /\ GroupMatches(g)
        THEN [search_scope |-> "FKNT", search_level |-> "faculty",
              target_entity |-> "None", confidence |-> 60]
        ELSE [search_scope |-> "global", search_level |-> "general",
              target_entity |-> "None", confidence |-> 50]

\* _llm_routing: the history put in the request; the last message is left
\* out when it is the user's question itself
RequestHistory(query, h) ==
    IF h # <<>> /\ h[Len(h)].role = "user" /\ h[Len(h)].content = query
    THEN SubSeq(h, 1, Len(h) - 1)
    ELSE h

intent_order == <<"schedule", "news", "contacts", "events", "info">>

intent_patterns(intent) ==
    CASE intent = "schedule" -> {"rozklad", "pary", "zanyattya", "koly", "o kotriy"}
      [] intent = "news" -> {"novyn", "podiy", "ostann", "shcho novoho", "aktualn"}
      [] intent = "contacts" -> {"kontakt", "telefon", "adres", "email", "de znakhodytsya"}
      [] intent = "events" -> {"zakhid", "konferentsiya", "seminar", "zustrich", "forum", "polit"}
      [] intent = "info" -> {"informats", "rozkazhy", "shcho", "yak", "hto", "vykladach"}

DetectIntent(query) ==
    IF \E i \in 1..5 : ContainsAny(query, intent_patterns(intent_order[i]))
    THEN intent_order[CHOOSE i \in 1..5 :
             /\ ContainsAny(query, intent_patterns(intent_order[i]))
             /\ \A j \in 1..(i - 1) : ~ContainsAny(query, intent_patterns(intent_order[j]))]
    ELSE "info"

intent_keywords(intent) ==
    CASE intent = "schedule" -> <<<<"hrafik">>, <<"chas">>, <<"audytoriya">>>>
      [] intent = "news" -> <<<<"podiya">>, <<"oholoshennya">>, <<"informatsiya">>>>
      [] intent = "contacts" -> <<<<"zvyazok">>, <<"telefon">>, <<"adresa">>>>
      [] intent = "events" -> <<<<"podiya">>, <<"zustrich">>, <<"zakhid">>>>
      [] intent = "info" -> <<<<"informatsiya">>, <<"dani">>, <<"vidomosti">>>>

semantic_key_order ==
    <<"polit", "zustrich", "podiya", "vykladach", "zaviduvach", "navchannya",
      "rozklad", "doslidzhennya", "konferentsiya", "vstup", "kontakty">>

\* the first three expansions of a key of self.semantic_expansions
semantic_expansions(key) ==
    CASE key = "polit" -> <<<<"konferentsiya">>, <<"zakhid">>, <<"zustrich">>>>
      [] key = "zustrich" -> <<<<"zasidannya">>, <<"narada">>, <<"konferentsiya">>>>
      [] key = "podiya" -> <<<<"zakhid">>, <<"konferentsiya">>, <<"forum">>>>
      [] key = "vykladach" -> <<<<"profesor">>, <<"dotsent">>, <<"zaviduvach">>>>
      [] key = "zaviduvach" -> <<<<"zavkafedry">>, <<"kerivnyk", "kafedry">>, <<"dekan">>>>
      [] key = "navchannya" -> <<<<"osvita">>, <<"zanyattya">>, <<"pary">>>>
      [] key = "rozklad" -> <<<<"pary">>, <<"zanyattya">>, <<"hrafik">>>>
      [] key = "doslidzhennya" -> <<<<"nauka">>, <<"naukova", "robota">>, <<"publikatsiyi">>>>
      [] key = "konferentsiya" -> <<<<"sympozium">>, <<"forum">>, <<"naukova", "podiya">>>>
      [] key = "vstup" -> <<<<"abituriyent">>, <<"pryyom">>, <<"dokumenty">>>>
      [] key = "kontakty" -> <<<<"telefon">>, <<"adresa">>, <<"email">>>>

\* the list keywords of _generate_enhancement_keywords before it is
\* deduplicated: three expansions of every key found in the question, then
\* the terms of the intent
CollectedKeywords(query, intent) ==
    LET expanded == Flatten([i \in 1..Len(semantic_key_order) |->
                        IF Contains(query, semantic_key_order[i])
                        THEN semantic_expansions(semantic_key_order[i]) ELSE <<>>])
    IN  expanded \o intent_keywords(intent)

GenerateEnhancementKeywordsKeepingDuplicates(query, intent) ==
    LET keywords == CollectedKeywords(query, intent)
    IN  {SubSeq(keywords, 1, IF Len(keywords) < max_keywords
                             THEN Len(keywords) ELSE max_keywords)}

\* the keyword lists _generate_enhancement_keywords may return: the distinct
\* terms in any order (list(set(...)) fixes none), cut to five
GenerateEnhancementKeywords(query, intent) ==
    ListOfSet(Range(CollectedKeywords(query, intent)), max_keywords)

greeting_words ==
    {"pryvit", "pryvet", "dyakuyu", "spasybo", "poka", "buvay", "hi", "hello", "bye"}

question_words ==
    {"shcho", "yak", "koly", "de", "hto", "chomu", "yakyy", "yaka", "yake", "chy"}

NeedsSearch(query) ==
    (~(Len(query) <= 3 /\ ContainsAny(query, greeting_words)))
        \/ ContainsAny(query, question_words)

\* the value of confidence in the RouteDecision _heuristic_routing returns
returned_confidence == 50

HeuristicRoutingLocalConfidence(query, h, g) ==
    LET scope == HeuristicScope(query, h, g)
    IN  {[search_scope |-> scope.search_scope, search_level |-> scope.search_level,
          target_entity |-> scope.target_entity,
          search_intent |-> DetectIntent(query), enhancement_keywords |-> kws,
          confidence |-> scope.confidence,
          needs_database_search |-> NeedsSearch(query)]
            : kws \in GenerateEnhancementKeywords(query, DetectIntent(query))}

\* the decisions _heuristic_routing may return
HeuristicRouting(query, h, g) ==
    LET scope == HeuristicScope(query, h, g)
    IN  {[search_scope |-> scope.search_scope, search_level |-> scope.search_level,
          target_entity |-> scope.target_entity,
          search_intent |-> DetectIntent(query), enhancement_keywords |-> kws,
          confidence |-> returned_confidence,
          needs_database_search |-> NeedsSearch(query)]
            : kws \in GenerateEnhancementKeywords(query, DetectIntent(query))}

\* one pass of the retry loop of _llm_routing
LlmRoutingStepNoHttpRetry(kind, att) ==
    IF kind \in {"ok", "partial"} THEN "return"
    ELSE IF att < llm_routing_max_retries /\ kind # "http" THEN "continue"
    ELSE "none"
LlmRoutingStepPartialFails(kind, att) ==
    IF kind = "ok" THEN "return"
    ELSE IF att < llm_routing_max_retries THEN "continue"
    ELSE "none"
LlmRoutingStep(kind, att) ==
    IF kind \in {"ok", "partial"} THEN "return"
    ELSE IF att < llm_routing_max_retries THEN "continue"
    ELSE "none"

-----------------------------------------------------------------------------
(* Timeouts of the calls of the reasoning service *)

\* seconds given to httpx.AsyncClient by _llm_routing and by _llm_validation
routing_timeout == 30
validation_timeout == 300

\* the timeout of a call of the reasoning service, 0 when the call has none:
\* generate_content of the Gemini backend is called with no timeout
CallTimeout(caller, gemini) ==
    IF gemini THEN 0
    ELSE IF caller = "route" THEN routing_timeout ELSE validation_timeout

HasTimeout(caller, gemini) == CallTimeout(caller, gemini) > 0

-----------------------------------------------------------------------------
(* Timetable cache *)

\* how the download of a timetable ends: parsed, no URL found for the group,
\* or a page that cannot be parsed
FetchKinds == {"ok", "no_url", "parse_failed"}

\* load_group_schedule: the schedule returned ("None", or the group whose
\* timetable it is) and the cache it leaves
LoadGroupSchedule(cache, g, fetch) ==
    IF g \in cache
    THEN [schedule |-> g, cached_schedules |-> cache]
    ELSE IF fetch = "ok"
         THEN [schedule |-> g, cached_schedules |-> cache \cup {g}]
         ELSE [schedule |-> "None", cached_schedules |-> cache]

\* self.max_retries and self.retry_delay of ScheduleManager
request_max_retries == 10
retry_delay == 10

\* the timetable site may publish this many versions of a timetable
MaxVersions == 2

Versions == 1..MaxVersions

\* the groups whose timetable is asked for
ScheduleGroups == {"ir-21", "ab-11"}

RECURSIVE Pow2(_)
Pow2(n) == IF n = 0 THEN 1 ELSE 2 * Pow2(n - 1)

\* delay = self.retry_delay * (2 ** attempt)
RetryDelayLinear(att) == retry_delay * (att + 1)
RetryDelay(att) == retry_delay * Pow2(att)

\* the ScheduleManager at rest with an empty cache. stored[g] is the version
\* of the timetable cached for g (0: none), attempt, tries and slept belong
\* to the _make_request_with_retry call under way or just returned, requests
\* counts the HTTP requests of the load_group_schedule call, result is what
\* that call returned: the version of a timetable, 0 for None, -1 before it
\* returns.
IdleManager ==
    [pc |-> "idle", group |-> "None", attempt |-> 0, tries |-> 0, slept |-> <<>>,
     last_response |-> "none", requests |-> 0, result |-> -1,
     stored |-> [g \in ScheduleGroups |-> 0]]

\* self.cached_schedules[group_name] = schedule, done only if schedule
CacheStoreAlways(stored, g, schedule) ==
    [stored EXCEPT ![g] = IF schedule = 0 THEN MaxVersions ELSE schedule]
CacheStore(stored, g, schedule) ==
    IF schedule # 0 THEN [stored EXCEPT ![g] = schedule] ELSE stored

-----------------------------------------------------------------------------
(* Fallback response *)

NoFallback == [text |-> "none", db_search |-> FALSE]

\* the texts of _fallback_response that say that the LLM is unavailable
llm_unavailable_texts ==
    {"greeting", "schedule_needs_group", "schedule_loaded", "schedule_not_found",
     "nothing_found", "search_results"}

\* _fallback_response: the text returned, whether db.search was called, and
\* the cache left. greeting and schedule_question tell whether a word of
\* GREETING_KEYWORDS, of SCHEDULE_KEYWORDS is in the message; hits is the
\* number of results of db.search.
FallbackResponseScheduleError(greeting, schedule_question, g, cache, fetch, hits) ==
    IF greeting
    THEN [text |-> "greeting", db_search |-> FALSE, cached_schedules |-> cache]
    ELSE IF schedule_question /\ g = "None"
    THEN [text |-> "schedule_needs_group", db_search |-> FALSE, cached_schedules |-> cache]
    ELSE IF schedule_question
    THEN LET loaded == LoadGroupSchedule(cache, g, fetch)
         IN  [text |-> IF loaded.schedule # "None" THEN "schedule_loaded"
                       ELSE "schedule_error",
              db_search |-> FALSE, cached_schedules |-> loaded.cached_schedules]
    ELSE [text |-> IF hits = 0 THEN "nothing_found" ELSE "search_results",
          db_search |-> TRUE, cached_schedules |-> cache]

FallbackResponse(greeting, schedule_question, g, cache, fetch, hits) ==
    IF greeting
    THEN [text |-> "greeting", db_search |-> FALSE, cached_schedules |-> cache]
    ELSE IF schedule_question /\ g = "None"
    THEN [text |-> "schedule_needs_group", db_search |-> FALSE, cached_schedules |-> cache]
    ELSE IF schedule_question
    THEN LET loaded == LoadGroupSchedule(cache, g, fetch)
         IN  [text |-> IF loaded.schedule # "None" THEN "schedule_loaded"
                       ELSE "schedule_not_found",
              db_search |-> FALSE, cached_schedules |-> loaded.cached_schedules]
    ELSE [text |-> IF hits = 0 THEN "nothing_found" ELSE "search_results",
          db_search |-> TRUE, cached_schedules |-> cache]

\* what _fallback_response may do for a group and a cache
FallbackResponses(g, cache) ==
    {FallbackResponse(greeting, schedule_question, g, cache, fetch, hits) :
        greeting \in BOOLEAN, schedule_question \in BOOLEAN, fetch \in FetchKinds,
        hits \in {0, 1}}

-----------------------------------------------------------------------------
(* Availability probe *)

LmAvailableOnException(kind) == kind # "bad"
LmAvailable(kind) == kind = "ok"

-----------------------------------------------------------------------------
(* Routed search *)

\* the search_type _combine_results gives to the hits of a fused list
combined_search_types == {"embedding", "hybrid", "keyword"}

\* the hit list of the k-th search when the store answers with n hits
Hits(k, n) == [i \in 1..n |-> [search |-> k, idx |-> i, search_type |-> "routed"]]

\* how a routed search may end: with the answer of the store, or with an
\* exception of the encoder or of the store
SearchKinds == {"ok", "encoder_error", "store_error"}

RouteAwareSearchIgnoringErrors(kind, k, n) == Hits(k, n)

\* _route_aware_search: the formatted hits, or [] from the except clause
RouteAwareSearch(kind, k, n) == IF kind = "ok" THEN Hits(k, n) ELSE <<>>

\* search_with_route: final_results = ranked[:top_k]
FinalResultsUntruncated(ranked) == ranked
FinalResultsOf(ranked) ==
    SubSeq(ranked, 1, IF Len(ranked) < top_k THEN Len(ranked) ELSE top_k)

\* the list bound to raw_results by one more search
RawResultsAccumulated(old, fresh) == old \o fresh
RawResults(old, fresh) == fresh

EnhancedQueryCaseSensitive(query, keywords) ==
    LET query_words == {query[i] : i \in 1..Len(query)}
        IsNew(kw) == ~(Len(kw) = 1 /\ kw[1] \in query_words)
        new_keywords == SelectSeq(keywords, IsNew)
    IN  query \o Flatten(new_keywords)

\* search_with_route: the text that is encoded
EnhancedQuery(query, keywords) ==
    LET query_words_lower == {Lower(query[i]) : i \in 1..Len(query)}
        IsNew(kw) == ~(Len(kw) = 1 /\ Lower(kw[1]) \in query_words_lower)
        new_keywords == SelectSeq(keywords, IsNew)
    IN  query \o Flatten(new_keywords)

-----------------------------------------------------------------------------
(* Fusion of embedding and keyword results *)

NoCall == [fn |-> "none"]

Max0(x) == IF x > 0 THEN x ELSE 0

\* a distance is in hundredths; the relevance_score of an embedding hit is in
\* hundredths until _combine_results replaces it with a score in units, the
\* unit of the keyword scores
EmbeddingHit(id, distance) ==
    [id |-> id, distance |-> distance, relevance_score |-> Max0(100 - distance \div 4),
     search_type |-> "embedding"]

KeywordHit(id, score) ==
    [id |-> id, distance |-> 100 - score * 10, relevance_score |-> score,
     search_type |-> "keyword"]

\* combined[doc_id] = result: a dict keeps the place of a key it already holds
DictSet(combined, result) ==
    IF \E i \in 1..Len(combined) : combined[i].id = result.id
    THEN [i \in 1..Len(combined) |->
             IF combined[i].id = result.id THEN result ELSE combined[i]]
    ELSE Append(combined, result)

RECURSIVE SortByScoreDescendingUnstable(_)
SortByScoreDescendingUnstable(list) ==
    IF list = <<>> THEN <<>>
    ELSE LET sorted == SortByScoreDescendingUnstable(SubSeq(list, 1, Len(list) - 1))
             last == list[Len(list)]
             before == SelectSeq(sorted, LAMBDA h : h.relevance_score > last.relevance_score)
             after == SelectSeq(sorted, LAMBDA h : h.relevance_score <= last.relevance_score)
         IN  before \o <<last>> \o after

\* list.sort(key=relevance_score, reverse=True): descending, and equal scores
\* keep their order
RECURSIVE SortByScoreDescending(_)
SortByScoreDescending(list) ==
    IF list = <<>> THEN <<>>
    ELSE LET sorted == SortByScoreDescending(SubSeq(list, 1, Len(list) - 1))
             last == list[Len(list)]
             before == SelectSeq(sorted, LAMBDA h : h.relevance_score >= last.relevance_score)
             after == SelectSeq(sorted, LAMBDA h : h.relevance_score < last.relevance_score)
         IN  before \o <<last>> \o after

\* list[:k]
Truncate(list, k) == SubSeq(list, 1, IF Len(list) < k THEN Len(list) ELSE k)

\* the first loop of _combine_results
RECURSIVE SeedEmbedding(_, _, _)
SeedEmbedding(combined, embedding_results, i) ==
    IF i > Len(embedding_results) THEN combined
    ELSE LET result == embedding_results[i]
             base == Max0((200 - result.distance) \div 2)
             position_bonus == Max0((10 - (i - 1)) * 5)
         IN  SeedEmbedding(
                 DictSet(combined,
                         [id |-> result.id, distance |-> result.distance,
                          relevance_score |-> base + position_bonus,
                          search_type |-> "embedding",
                          embedding_rank |-> i, keyword_rank |-> 0]),
                 embedding_results, i + 1)

\* the second loop of _combine_results
RECURSIVE MergeKeywordEqualBoost(_, _, _)
MergeKeywordEqualBoost(combined, keyword_results, i) ==
    IF i > Len(keyword_results) THEN combined
    ELSE LET result == keyword_results[i]
         IN  IF \E j \in 1..Len(combined) : combined[j].id = result.id
             THEN MergeKeywordEqualBoost(
                      [j \in 1..Len(combined) |->
                          IF combined[j].id = result.id
                          THEN [combined[j] EXCEPT
                                   !.relevance_score = @ + result.relevance_score * 3,
                                   !.search_type = "hybrid",
                                   !.keyword_rank = i]
                          ELSE combined[j]],
                      keyword_results, i + 1)
             ELSE MergeKeywordEqualBoost(
                      Append(combined,
                             [id |-> result.id, distance |-> result.distance,
                              relevance_score |-> result.relevance_score * 3,
                              search_type |-> "keyword",
                              embedding_rank |-> 0, keyword_rank |-> i]),
                      keyword_results, i + 1)

RECURSIVE MergeKeyword(_, _, _)
MergeKeyword(combined, keyword_results, i) ==
    IF i > Len(keyword_results) THEN combined
    ELSE LET result == keyword_results[i]
         IN  IF \E j \in 1..Len(combined) : combined[j].id = result.id
             THEN MergeKeyword(
                      [j \in 1..Len(combined) |->
                          IF combined[j].id = result.id
                          THEN [combined[j] EXCEPT
                                   !.relevance_score = @ + result.relevance_score * 2,
                                   !.search_type = "hybrid",
                                   !.keyword_rank = i]
                          ELSE combined[j]],
                      keyword_results, i + 1)
             ELSE MergeKeyword(
                      Append(combined,
                             [id |-> result.id, distance |-> result.distance,
                              relevance_score |-> result.relevance_score * 3,
                              search_type |-> "keyword",
                              embedding_rank |-> 0, keyword_rank |-> i]),
                      keyword_results, i + 1)

\* _combine_results
CombineResults(embedding_results, keyword_results, k) ==
    LET combined == MergeKeyword(SeedEmbedding(<<>>, embedding_results, 1),
                                keyword_results, 1)
    IN  Truncate(SortByScoreDescending(combined), k)

\* the lists of n distinct elements of S
DistinctLists(S, n) == {l \in [1..n -> S] : \A i, j \in 1..n : i # j => l[i] # l[j]}

\* the inputs of _combine_results
DocIds == {"a", "b", "c"}

Distances == {0, 100, 260}

KeywordScores == {3, 30, 41}

\* _embedding_search returns hits of distinct documents by ascending distance
EmbeddingLists ==
    UNION {{[i \in 1..n |-> EmbeddingHit(ids[i], ds[i])] :
                ids \in DistinctLists(DocIds, n),
                ds \in {d \in [1..n -> Distances] :
                           \A i \in 1..(n - 1) : d[i] <= d[i + 1]}}
           : n \in 0..MaxFused}

\* twelve hits, so that the ranks from which position_bonus is 0 occur
LongEmbeddingList ==
    [i \in 1..12 |->
        EmbeddingHit(<<"d01", "d02", "d03", "d04", "d05", "d06",
                       "d07", "d08", "d09", "d10", "d11", "d12">>[i], 100)]

\* _keyword_search returns hits of distinct documents by descending score
KeywordLists ==
    UNION {{[i \in 1..n |-> KeywordHit(ids[i], ss[i])] :
                ids \in DistinctLists(DocIds, n),
                ss \in {x \in [1..n -> KeywordScores] :
                           \A i \in 1..(n - 1) : x[i] >= x[i + 1]}}
           : n \in 0..MaxFused}

CombineResultsCalls ==
    {[fn |-> "_combine_results", embedding_results |-> e, keyword_results |-> k,
      top_k |-> t] :
        e \in EmbeddingLists \cup {LongEmbeddingList}, k \in KeywordLists,
        t \in {1, 5}}

-----------------------------------------------------------------------------
(* Keyword score of a document; a text is a sequence of characters *)

\* keyword in text, at place i
OccursAt(keyword, text, i) ==
    /\ i + Len(keyword) - 1 <= Len(text)
    /\ SubSeq(text, i, i + Len(keyword) - 1) = keyword

\* keyword in text
IsSubstring(keyword, text) == \E i \in 1..Len(text) : OccursAt(keyword, text, i)

\* text.count(keyword): the occurrences that do not overlap, from the left
RECURSIVE CountFrom(_, _, _)
CountFrom(keyword, text, i) ==
    IF i + Len(keyword) - 1 > Len(text) THEN 0
    ELSE IF OccursAt(keyword, text, i)
         THEN 1 + CountFrom(keyword, text, i + Len(keyword))
         ELSE CountFrom(keyword, text, i + 1)

\* text.split()
RECURSIVE SplitFrom(_, _, _)
SplitFrom(text, i, word) ==
    IF i > Len(text)
    THEN (IF word = <<>> THEN <<>> ELSE <<word>>)
    ELSE IF text[i] = " "
         THEN (IF word = <<>> THEN <<>> ELSE <<word>>) \o SplitFrom(text, i + 1, <<>>)
         ELSE SplitFrom(text, i + 1, Append(word, text[i]))

Split(text) == SplitFrom(text, 1, <<>>)

\* the length of the longest common subsequence
RECURSIVE Lcs(_, _)
Lcs(a, b) ==
    IF a = <<>> \/ b = <<>> THEN 0
    ELSE IF Head(a) = Head(b) THEN 1 + Lcs(Tail(a), Tail(b))
    ELSE LET x == Lcs(Tail(a), b)
             y == Lcs(a, Tail(b))
         IN  IF x > y THEN x ELSE y

\* fuzz.ratio(a, b) > 85: the ratio is 100 * 2 * Lcs / (len(a) + len(b))
FuzzRatioAbove85(a, b) == 200 * Lcs(a, b) > 85 * (Len(a) + Len(b))

\* the part of the score that one keyword adds
KeywordScoreFuzzyAlways(keyword, title, content) ==
    (IF IsSubstring(keyword, title) THEN 30 ELSE 0)
    + CountFrom(keyword, content, 1) * 3
    + (IF \E i \in 1..Len(Split(title)) : FuzzRatioAbove85(keyword, Split(title)[i])
       THEN 8 ELSE 0)
    + (IF \E i \in 1..Len(Split(content)) : FuzzRatioAbove85(keyword, Split(content)[i])
       THEN 4 ELSE 0)

KeywordScore(keyword, title, content) ==
    (IF IsSubstring(keyword, title) THEN 30 ELSE 0)
    + CountFrom(keyword, content, 1) * 3
    + (IF Len(keyword) > 3
       THEN (IF \E i \in 1..Len(Split(title)) :
                   FuzzRatioAbove85(keyword, Split(title)[i])
             THEN 8 ELSE 0)
            + (IF \E i \in 1..Len(Split(content)) :
                     FuzzRatioAbove85(keyword, Split(content)[i])
               THEN 4 ELSE 0)
       ELSE 0)

\* _calculate_keyword_score, for a lowercase title and content
RECURSIVE CalculateKeywordScore(_, _, _)
CalculateKeywordScore(content, keywords, title) ==
    IF keywords = <<>> THEN 0
    ELSE KeywordScore(Head(keywords), title, content)
             + CalculateKeywordScore(content, Tail(keywords), title)

\* the inputs of the score: "nau", "dekan", "dekany", "dekana"
nau == <<"n", "a", "u">>
dekan == <<"d", "e", "k", "a", "n">>
dekany == Append(dekan, "y")
dekana == Append(dekan, "a")
space == <<" ">>

Titles == {<<>>, nau, dekany, dekan \o space \o nau}

Contents ==
    {<<>>, nau \o space \o nau, dekana, dekany \o space \o nau \o dekan}

\* keyword lists as _extract_keywords makes them: one or two words followed
\* by the words joined with a space
KeywordArgs ==
    {<<nau, nau>>, <<dekan, dekan>>, <<dekan, nau, dekan \o space \o nau>>,
     <<dekany, nau, dekany \o space \o nau>>}

CalculateKeywordScoreCalls ==
    {[fn |-> "_calculate_keyword_score", content |-> c, keywords |-> k, title |-> t] :
        c \in Contents, k \in KeywordArgs, t \in Titles}

-----------------------------------------------------------------------------
(* Truncation of the dialogue history; a content is a sequence of characters *)

\* the longest history truncate_messages is called with
MaxMessages == 3

\* count_tokens: len(text) // 4
CountTokens(text) == Len(text) \div 4

\* the loop of truncate_messages over reversed(messages), at message i, with
\* total_tokens and result so far
RECURSIVE TruncateFromSkipping(_, _, _, _, _)
TruncateFromSkipping(messages, i, total_tokens, result, max_tokens) ==
    IF i = 0 THEN result
    ELSE LET message_tokens == CountTokens(messages[i].content)
         IN  IF total_tokens + message_tokens <= max_tokens
             THEN TruncateFromSkipping(messages, i - 1, total_tokens + message_tokens,
                                       <<messages[i]>> \o result, max_tokens)
             ELSE TruncateFromSkipping(messages, i - 1, total_tokens, result, max_tokens)
RECURSIVE TruncateFrom(_, _, _, _, _)
TruncateFrom(messages, i, total_tokens, result, max_tokens) ==
    IF i = 0 THEN result
    ELSE LET message_tokens == CountTokens(messages[i].content)
         IN  IF total_tokens + message_tokens <= max_tokens
             THEN TruncateFrom(messages, i - 1, total_tokens + message_tokens,
                               <<messages[i]>> \o result, max_tokens)
             ELSE result

\* truncate_messages
TruncateMessages(messages, max_tokens) ==
    IF messages = <<>> THEN <<>>
    ELSE TruncateFrom(messages, Len(messages), 0, <<>>, max_tokens)

\* a content of n characters
ContentOfLength(n) == [i \in 1..n |-> "x"]

\* contents of 0, 1, 2 and 10 tokens
MessageContents == {ContentOfLength(n) : n \in {3, 4, 9, 40}}

\* the histories: up to MaxMessages messages, user and assistant in turn
MessageLists ==
    UNION {{[i \in 1..n |-> [role |-> IF i % 2 = 1 THEN "user" ELSE "assistant",
                              content |-> c[i]]] : c \in [1..n -> MessageContents]}
           : n \in 0..MaxMessages}

\* available_for_history, which the caller has found positive
MaxTokenChoices == {1, 2, 3, 11, 12, 30}

TruncateMessagesCalls ==
    {[fn |-> "truncate_messages", messages |-> m, max_tokens |-> t] :
        m \in MessageLists, t \in MaxTokenChoices}

-----------------------------------------------------------------------------
(* Re-ranking of routed hits *)

\* the bonus of _rerank_with_route_bonuses, in hundredths
route_bonus == 10

\* a hit of _route_aware_search: distance and relevance_score in hundredths,
\* faculty and department of its metadata ("None" when the key is absent)
RoutedHit(id, distance, faculty, department) ==
    [id |-> id, distance |-> distance, relevance_score |-> Max0(100 - distance \div 4),
     faculty |-> faculty, department |-> department, search_type |-> "routed"]

\* the bonus of one hit
RouteBonus(hit, route) ==
    IF route.search_scope # "global"
    THEN (IF hit.faculty = route.search_scope THEN route_bonus ELSE 0)
         + (IF hit.department = route.target_entity THEN route_bonus ELSE 0)
    ELSE 0

\* _rerank_with_route_bonuses
RerankWithRouteBonuses(results, route) ==
    SortByScoreDescending(
        [i \in 1..Len(results) |->
            [results[i] EXCEPT !.relevance_score = @ + RouteBonus(results[i], route)]])

\* search_with_route, steps 4 and 5: the re-ranked hits cut to top_k
FinalResults(results, route, k) == Truncate(RerankWithRouteBonuses(results, route), k)

\* the inputs of the re-ranking
RoutedDistances == {0, 40, 80, 440}

HitFaculties == {"FKNT", "FAET", "None"}

HitDepartments == {"IPZ", "None"}

\* the store answers by ascending distance
RoutedLists ==
    UNION {{[i \in 1..n |-> RoutedHit(<<"a", "b", "c", "d">>[i], ds[i], fs[i], deps[i])] :
                ds \in {d \in [1..n -> RoutedDistances] :
                           \A i \in 1..(n - 1) : d[i] <= d[i + 1]},
                fs \in [1..n -> HitFaculties], deps \in [1..n -> HitDepartments]}
           : n \in 0..MaxRouted}

\* hits a, b, c with the scores 10, 30 and 5, b of the faculty of the route
ExampleResults ==
    <<[id |-> "a", distance |-> 0, relevance_score |-> 1000, faculty |-> "FAET",
       department |-> "IPZ", search_type |-> "routed"],
      [id |-> "b", distance |-> 0, relevance_score |-> 3000, faculty |-> "FKNT",
       department |-> "IPZ", search_type |-> "routed"],
      [id |-> "c", distance |-> 0, relevance_score |-> 500, faculty |-> "FAET",
       department |-> "IPZ", search_type |-> "routed"]>>

\* search_scope and target_entity of the route of a search
RerankRoutes ==
    {[search_scope |-> "global", target_entity |-> "None"],
     [search_scope |-> "global", target_entity |-> "IPZ"],
     [search_scope |-> "FKNT", target_entity |-> "None"],
     [search_scope |-> "FKNT", target_entity |-> "IPZ"]}

FinalResultsCalls ==
    {[fn |-> "search_with_route", results |-> r, route_decision |-> d, top_k |-> t] :
        r \in RoutedLists \cup {ExampleResults}, d \in RerankRoutes, t \in {1, top_k}}

-----------------------------------------------------------------------------
(* Result validator *)

\* selected_indices holds the integer elements of the list of the verdict;
\* non_integer_index tells whether the list also holds an element that is no
\* integer (the dataclass checks no types)
NoDecision ==
    [is_relevant |-> FALSE, selected_indices |-> <<>>, non_integer_index |-> FALSE,
     confidence |-> 0, needs_reformulation |-> FALSE, reformulated_query |-> <<>>]

\* the ValidationDecision built from a parsed response
ParsedDecisions ==
    [is_relevant : BOOLEAN, selected_indices : SelectedChoices,
     non_integer_index : {FALSE}, confidence : {85},
     needs_reformulation : BOOLEAN, reformulated_query : ReformulatedChoices]
    \cup
    [is_relevant : BOOLEAN, selected_indices : {<<>>},
     non_integer_index : {TRUE}, confidence : {85},
     needs_reformulation : BOOLEAN, reformulated_query : ReformulatedChoices]

\* the decision returned when the last permitted call yields no JSON object
PermissiveDecision(n) ==
    [is_relevant |-> n > 0,
     selected_indices |-> IF n >= 3 THEN <<1, 2, 3>> ELSE [i \in 1..n |-> i],
     non_integer_index |-> FALSE,
     confidence |-> 30, needs_reformulation |-> FALSE, reformulated_query |-> <<>>]

\* the decision returned when the last permitted call ends in a status other
\* than 200 or in an exception
NegativeDecision ==
    [is_relevant |-> FALSE, selected_indices |-> <<>>, non_integer_index |-> FALSE,
     confidence |-> 0, needs_reformulation |-> FALSE, reformulated_query |-> <<>>]

FallbackDecision(kind, n) ==
    IF kind = "malformed" THEN PermissiveDecision(n) ELSE NegativeDecision

\* one pass of the retry loop of _llm_validation
LlmValidationStep(kind, retry) ==
    IF kind = "ok" THEN "return"
    ELSE IF retry < llm_validation_max_retries THEN "continue"
    ELSE "fallback"

\* [search_results[i-1] for i in selected_indices if 1 <= i <= len(search_results)]
PickHits(search_results, indices) ==
    LET InRange(i) == 1 <= i /\ i <= Len(search_results)
        kept == SelectSeq(indices, InRange)
    IN  [j \in 1..Len(kept) |-> search_results[kept[j]]]

\* bool(decision.selected_indices)
HasSelection(decision) == decision.selected_indices # <<>> \/ decision.non_integer_index

\* validate_and_select, after the decision is made: the comparison
\* 1 <= i <= len(search_results) raises TypeError on an element that is no
\* integer, and nothing up to process_query's caller catches it
ValidateAndSelectRaises(decision, att) ==
    /\ ~(decision.needs_reformulation /\ att < validator_max_retries)
    /\ decision.is_relevant
    /\ decision.non_integer_index

\* validate_and_select, after the decision is made: the selected results
ValidateAndSelectIgnoringRelevance(decision, search_results, att) ==
    IF decision.needs_reformulation /\ att < validator_max_retries THEN <<>>
    ELSE PickHits(search_results, decision.selected_indices)
ValidateAndSelect(decision, search_results, att) ==
    IF decision.needs_reformulation /\ att < validator_max_retries THEN <<>>
    ELSE IF decision.is_relevant /\ HasSelection(decision)
         THEN PickHits(search_results, decision.selected_indices)
         ELSE <<>>

-----------------------------------------------------------------------------
(* Retrieval orchestrator *)

\* the initial query text
InitialQueryRawQuestion(route, msg) == msg
InitialQuery(route, msg) ==
    IF route.enhancement_keywords # <<>> THEN Flatten(route.enhancement_keywords) ELSE msg

\* current_query.split()[0] if len(current_query.split()) > 1 else current_query
SimplifyQueryLastToken(query) == IF Len(query) > 1 THEN <<query[Len(query)]>> ELSE query
SimplifyQuery(query) == IF Len(query) > 1 THEN <<query[1]>> ELSE query

\* the number of the attempt that follows attempt att
NextAttempt(att) == att + 1

\* current_query = validation_decision.reformulated_query
NextQueryKeepingCurrent(decision, query) == query
NextQuery(decision, query) == decision.reformulated_query

\* what the loop body does with the validator's answer
LoopBranchIgnoringQuery(decision, selected, att) ==
    IF decision.is_relevant /\ selected # <<>> THEN "SUCCESS"
    ELSE IF decision.needs_reformulation
         THEN IF att = MAX_ATTEMPTS THEN "EXHAUSTED" ELSE "REFORMULATE"
         ELSE "STOP"
LoopBranch(decision, selected, att) ==
    IF decision.is_relevant /\ selected # <<>> THEN "SUCCESS"
    ELSE IF decision.needs_reformulation /\ decision.reformulated_query # <<>>
         THEN IF att = MAX_ATTEMPTS THEN "EXHAUSTED" ELSE "REFORMULATE"
         ELSE "STOP"

\* counters stop one above the largest value the program can reach
Count(c, cap) == IF c < cap THEN c + 1 ELSE c

-----------------------------------------------------------------------------
(* The exchange *)

inputs == <<message, history, group_name, use_gemini>>
layerVars == <<call, call_pc, returned, manager>>
concurrentVars == <<cached_schedules, exchanges>>
routerVars == <<route_decision, route_path, route_attempt, route_kind, route_missing,
               request_history>>
loopVars == <<attempt, current_query, query_origin, enhanced_query, raw_results,
              search_kind, context_results, outcome>>
validatorVars == <<retry_attempt, val_kind, validation_decision, selected_results>>
counters == <<searches, empty_searches, validations, llm_calls>>

Init ==
    /\ message \in Messages
    /\ use_gemini \in BOOLEAN
    /\ history = <<>>
    /\ group_name = "None"
    /\ request_history = <<>>
    /\ route_missing = {}
    /\ pc = "check"
    /\ check_kind = "none"
    /\ route_decision = NoRoute
    /\ route_path = "none"
    /\ route_attempt = 0
    /\ route_kind = "none"
    /\ attempt = 0
    /\ current_query = <<>>
    /\ query_origin = "none"
    /\ enhanced_query = <<>>
    /\ raw_results = <<>>
    /\ search_kind = "none"
    /\ call = NoCall
    /\ call_pc = "none"
    /\ returned = <<>>
    /\ manager = IdleManager
    /\ cached_schedules = {}
    /\ exchanges = <<>>
    /\ fallback = NoFallback
    /\ retry_attempt = 0
    /\ val_kind = "none"
    /\ validation_decision = NoDecision
    /\ selected_results = <<>>
    /\ context_results = <<>>
    /\ outcome = "none"
    /\ response = "none"
    /\ searches = 0
    /\ empty_searches = 0
    /\ validations = 0
    /\ llm_calls = 0

\* process_query: the availability gate; an unavailable LLM ends the exchange
\* with the fallback response
CheckLmStudio ==
    /\ pc = "check"
    /\ \E kind \in CheckKinds :
        /\ check_kind' = kind
        /\ IF LmAvailable(kind)
           THEN /\ pc' = "route"
                /\ route_attempt' = 1
                /\ response' = response
                /\ fallback' = fallback
                /\ \E fetch \in FetchKinds :
                       cached_schedules' =
                           IF group_name # "None"
                           THEN LoadGroupSchedule(cached_schedules, group_name,
                                                  fetch).cached_schedules
                           ELSE cached_schedules
           ELSE /\ pc' = "done"
                /\ route_attempt' = route_attempt
                /\ response' = "fallback"
                /\ \E fb \in FallbackResponses(group_name, cached_schedules) :
                       /\ fallback' = [text |-> fb.text, db_search |-> fb.db_search]
                       /\ cached_schedules' = fb.cached_schedules
    /\ UNCHANGED <<inputs, layerVars, exchanges, route_decision, route_path, route_kind,
                   route_missing, request_history, loopVars, validatorVars, counters>>

\* route_query: one call of the retry loop of _llm_routing and, after the
\* last failure, the heuristic fallback
LlmRoutingCall ==
    /\ pc = "route"
    /\ request_history' = RequestHistory(message, history)
    /\ \E kind \in RoutingCallKinds :
        /\ route_kind' = kind
        /\ LET step == LlmRoutingStep(kind, route_attempt) IN
            CASE step = "return" ->
                    /\ \E values \in LlmRouteDecisions,
                          missing \in IF kind = "partial" THEN MissingFieldChoices ELSE {{}} :
                          /\ route_decision' = RouteDecisionFromParsed(values, missing)
                          /\ route_missing' = missing
                    /\ route_path' = "llm"
                    /\ route_attempt' = route_attempt
                    /\ pc' = "routed"
              [] step = "continue" ->
                    /\ route_attempt' = route_attempt + 1
                    /\ pc' = "route"
                    /\ UNCHANGED <<route_decision, route_path, route_missing>>
              [] OTHER ->
                    /\ route_decision' \in HeuristicRouting(message, history, group_name)
                    /\ route_path' = "heuristic"
                    /\ route_missing' = route_missing
                    /\ route_attempt' = route_attempt
                    /\ pc' = "routed"
    /\ UNCHANGED <<inputs, layerVars, concurrentVars, fallback, check_kind, loopVars, validatorVars, counters, response>>

SearchNeededAlways(route) == TRUE

\* process_query: if route_decision.needs_database_search
SearchNeeded(route) == route.needs_database_search

\* a call of the reasoning service by the router or by the validator that
\* never answers, with no timeout to end it: the exchange waits for ever
ReasoningCallHangs ==
    /\ pc \in {"route", "validate"}
    /\ ~HasTimeout(pc, use_gemini)
    /\ pc' = "hung"
    /\ UNCHANGED <<inputs, layerVars, concurrentVars, fallback, check_kind, routerVars, loopVars,
                   validatorVars, counters, response>>

\* process_query and the head of _search_with_validation: the initial query
BeginSearchWithValidation ==
    /\ pc = "routed"
    /\ SearchNeeded(route_decision)
    /\ current_query' = InitialQuery(route_decision, message)
    /\ query_origin' = "initial"
    /\ attempt' = 1
    /\ outcome' = "running"
    /\ route_attempt' = 0
    /\ route_kind' = "none"
    /\ route_missing' = {}
    /\ pc' = "search"
    /\ UNCHANGED <<inputs, layerVars, concurrentVars, fallback, check_kind, route_decision, route_path, request_history,
                   enhanced_query, raw_results, search_kind, context_results, validatorVars, counters, response>>

\* process_query: no search when the route asks for none
SkipSearch ==
    /\ pc = "routed"
    /\ ~SearchNeeded(route_decision)
    /\ route_attempt' = 0
    /\ route_kind' = "none"
    /\ route_missing' = {}
    /\ pc' = "generate"
    /\ UNCHANGED <<inputs, layerVars, concurrentVars, fallback, check_kind, route_decision, route_path, request_history,
                   loopVars,
                   validatorVars, counters, response>>

\* one search of the loop and the zero-hit branch that follows it
SearchWithRoute ==
    /\ pc = "search"
    /\ \E n \in SearchHitCounts, kind \in SearchKinds :
        LET fresh == FinalResultsOf(RouteAwareSearch(kind, searches + 1, n))
            results == RawResults(raw_results, fresh)
        IN  /\ search_kind' = kind
            /\ enhanced_query' = EnhancedQuery(current_query, route_decision.enhancement_keywords)
            /\ raw_results' = results
            /\ searches' = Count(searches, MAX_ATTEMPTS + 1)
            /\ IF results = <<>>
               THEN IF attempt = MAX_ATTEMPTS
                    THEN /\ context_results' = <<>>
                         /\ outcome' = "GIVE_UP"
                         /\ pc' = "loop_done"
                         /\ UNCHANGED <<attempt, current_query, query_origin>>
                    ELSE /\ current_query' = SimplifyQuery(current_query)
                         /\ query_origin' = "zero_hit"
                         /\ attempt' = NextAttempt(attempt)
                         /\ pc' = "search"
                         /\ UNCHANGED <<context_results, outcome>>
               ELSE /\ pc' = "validate"
                    /\ UNCHANGED <<attempt, current_query, query_origin,
                                   context_results, outcome>>
            /\ IF results = <<>>
               THEN /\ empty_searches' = Count(empty_searches, MAX_ATTEMPTS + 1)
                    /\ UNCHANGED <<retry_attempt, validations>>
               ELSE /\ empty_searches' = empty_searches
                    /\ retry_attempt' = 1
                    /\ validations' = Count(validations, MAX_ATTEMPTS + 1)
    /\ UNCHANGED <<inputs, layerVars, concurrentVars, fallback, check_kind, routerVars, val_kind, validation_decision,
                   selected_results, llm_calls, response>>

\* validate_and_select: one call of the retry loop of _llm_validation; once a
\* decision is made, the selected results
LlmValidationCall ==
    /\ pc = "validate"
    /\ \E kind \in CallKinds, parsed \in ParsedDecisions :
        /\ val_kind' = kind
        /\ llm_calls' = Count(llm_calls, MAX_ATTEMPTS * llm_validation_max_retries + 1)
        /\ LET step == LlmValidationStep(kind, retry_attempt)
               decision == IF step = "return" THEN parsed
                           ELSE FallbackDecision(kind, Len(raw_results))
           IN  IF step = "continue"
               THEN /\ retry_attempt' = retry_attempt + 1
                    /\ pc' = "validate"
                    /\ UNCHANGED <<validation_decision, selected_results>>
                    /\ UNCHANGED <<loopVars, response>>
               ELSE IF ValidateAndSelectRaises(decision, attempt)
               THEN /\ validation_decision' = decision
                    /\ selected_results' = <<>>
                    /\ retry_attempt' = retry_attempt
                    /\ outcome' = "RAISED"
                    /\ response' = "raised"
                    /\ pc' = "done"
                    /\ UNCHANGED <<attempt, current_query, query_origin, enhanced_query,
                                   raw_results, search_kind, context_results>>
               ELSE /\ validation_decision' = decision
                    /\ selected_results' = ValidateAndSelect(decision, raw_results, attempt)
                    /\ retry_attempt' = retry_attempt
                    /\ pc' = "validated"
                    /\ UNCHANGED <<loopVars, response>>
    /\ UNCHANGED <<inputs, layerVars, concurrentVars, fallback, check_kind, routerVars, searches, empty_searches, validations>>

\* _search_with_validation: what follows the validator's answer
HandleValidation ==
    /\ pc = "validated"
    /\ LET branch == LoopBranch(validation_decision, selected_results, attempt) IN
        CASE branch = "SUCCESS" ->
                /\ context_results' = selected_results
                /\ outcome' = "SUCCESS"
                /\ pc' = "loop_done"
                /\ UNCHANGED <<attempt, current_query, query_origin,
                               validation_decision, selected_results>>
          [] branch = "REFORMULATE" ->
                /\ current_query' = NextQuery(validation_decision, current_query)
                /\ query_origin' = "reformulate"
                /\ attempt' = NextAttempt(attempt)
                /\ validation_decision' = NoDecision
                /\ selected_results' = <<>>
                /\ pc' = "search"
                /\ UNCHANGED <<context_results, outcome>>
          [] branch = "EXHAUSTED" ->
                /\ current_query' = NextQuery(validation_decision, current_query)
                /\ query_origin' = "reformulate"
                /\ context_results' = <<>>
                /\ outcome' = "GIVE_UP"
                /\ pc' = "loop_done"
                /\ UNCHANGED <<attempt, validation_decision, selected_results>>
          [] OTHER ->
                /\ context_results' = selected_results
                /\ outcome' = "GIVE_UP"
                /\ pc' = "loop_done"
                /\ UNCHANGED <<attempt, current_query, query_origin,
                               validation_decision, selected_results>>
    /\ retry_attempt' = 0
    /\ val_kind' = "none"
    /\ enhanced_query' = <<>>
    /\ UNCHANGED <<inputs, layerVars, concurrentVars, fallback, check_kind, routerVars, raw_results, search_kind, counters, response>>

\* process_query: the answer is generated; a failing generation call returns
\* the fallback response
GenerateLlmResponse ==
    /\ pc \in {"loop_done", "generate"}
    /\ \E kind \in {"ok", "exc"} :
        IF kind = "ok"
        THEN /\ response' = "llm"
             /\ UNCHANGED <<fallback, cached_schedules>>
        ELSE /\ response' = "fallback"
             /\ \E fb \in FallbackResponses(group_name, cached_schedules) :
                    /\ fallback' = [text |-> fb.text, db_search |-> fb.db_search]
                    /\ cached_schedules' = fb.cached_schedules
    /\ pc' = "done"
    /\ attempt' = 0
    /\ current_query' = <<>>
    /\ query_origin' = "none"
    /\ enhanced_query' = <<>>
    /\ raw_results' = <<>>
    /\ search_kind' = "none"
    /\ validation_decision' = NoDecision
    /\ selected_results' = <<>>
    /\ UNCHANGED <<inputs, layerVars, exchanges, check_kind, routerVars, retry_attempt,
                   val_kind, context_results, outcome, counters>>

Next ==
    \/ CheckLmStudio
    \/ LlmRoutingCall
    \/ ReasoningCallHangs
    \/ BeginSearchWithValidation
    \/ SkipSearch
    \/ SearchWithRoute
    \/ LlmValidationCall
    \/ HandleValidation
    \/ GenerateLlmResponse

Spec == Init /\ [][Next]_vars

\* the exchange keeps running: every call it awaits returns
LiveSpec == Spec /\ WF_vars(Next)

\* process_query entered without a group and with the group "ІР-21", with
\* the LM Studio backend and an empty timetable cache
GroupInit ==
    /\ message = <<"hto", "dekan">>
    /\ use_gemini = FALSE
    /\ history = <<>>
    /\ group_name \in {"None", "ir-21"}
    /\ request_history = <<>>
    /\ route_missing = {}
    /\ pc = "check"
    /\ check_kind = "none"
    /\ route_decision = NoRoute
    /\ route_path = "none"
    /\ route_attempt = 0
    /\ route_kind = "none"
    /\ attempt = 0
    /\ current_query = <<>>
    /\ query_origin = "none"
    /\ enhanced_query = <<>>
    /\ raw_results = <<>>
    /\ search_kind = "none"
    /\ call = NoCall
    /\ call_pc = "none"
    /\ returned = <<>>
    /\ manager = IdleManager
    /\ cached_schedules = {}
    /\ exchanges = <<>>
    /\ fallback = NoFallback
    /\ retry_attempt = 0
    /\ val_kind = "none"
    /\ validation_decision = NoDecision
    /\ selected_results = <<>>
    /\ context_results = <<>>
    /\ outcome = "none"
    /\ response = "none"
    /\ searches = 0
    /\ empty_searches = 0
    /\ validations = 0
    /\ llm_calls = 0

GroupNext ==
    \/ CheckLmStudio
    \/ LlmRoutingCall
    \/ BeginSearchWithValidation
    \/ SkipSearch
    \/ SearchWithRoute
    \/ LlmValidationCall
    \/ HandleValidation
    \/ GenerateLlmResponse

GroupSpec == GroupInit /\ [][GroupNext]_vars

\* route_query alone, entered with any question, history and group
RouterInit ==
    /\ \E input \in RouterInputs :
        /\ message = input[1]
        /\ history = input[2]
        /\ group_name = input[3]
    /\ use_gemini = FALSE
    /\ request_history = <<>>
    /\ route_missing = {}
    /\ pc = "route"
    /\ check_kind = "ok"
    /\ route_decision = NoRoute
    /\ route_path = "none"
    /\ route_attempt = 1
    /\ route_kind = "none"
    /\ attempt = 0
    /\ current_query = <<>>
    /\ query_origin = "none"
    /\ enhanced_query = <<>>
    /\ raw_results = <<>>
    /\ search_kind = "none"
    /\ call = NoCall
    /\ call_pc = "none"
    /\ returned = <<>>
    /\ manager = IdleManager
    /\ cached_schedules = {}
    /\ exchanges = <<>>
    /\ fallback = NoFallback
    /\ retry_attempt = 0
    /\ val_kind = "none"
    /\ validation_decision = NoDecision
    /\ selected_results = <<>>
    /\ context_results = <<>>
    /\ outcome = "none"
    /\ response = "none"
    /\ searches = 0
    /\ empty_searches = 0
    /\ validations = 0
    /\ llm_calls = 0

RouterNext == LlmRoutingCall

RouterSpec == RouterInit /\ [][RouterNext]_vars

-----------------------------------------------------------------------------
(* The functions of the search layer, each called on its own *)

\* no exchange is in progress
NoExchange ==
    /\ message = <<>>
    /\ fallback = NoFallback
    /\ use_gemini = FALSE
    /\ history = <<>>
    /\ group_name = "None"
    /\ request_history = <<>>
    /\ route_missing = {}
    /\ pc = "none"
    /\ check_kind = "none"
    /\ route_decision = NoRoute
    /\ route_path = "none"
    /\ route_attempt = 0
    /\ route_kind = "none"
    /\ attempt = 0
    /\ current_query = <<>>
    /\ query_origin = "none"
    /\ enhanced_query = <<>>
    /\ raw_results = <<>>
    /\ search_kind = "none"
    /\ retry_attempt = 0
    /\ val_kind = "none"
    /\ validation_decision = NoDecision
    /\ selected_results = <<>>
    /\ context_results = <<>>
    /\ outcome = "none"
    /\ response = "none"
    /\ searches = 0
    /\ empty_searches = 0
    /\ validations = 0
    /\ llm_calls = 0

exchangeVars == <<inputs, pc, check_kind, routerVars, loopVars, validatorVars,
                  counters, response, fallback, concurrentVars>>

LayerCalls ==
    CombineResultsCalls \cup FinalResultsCalls \cup CalculateKeywordScoreCalls
        \cup TruncateMessagesCalls

LayerInit ==
    /\ NoExchange
    /\ cached_schedules = {}
    /\ exchanges = <<>>
    /\ call \in LayerCalls
    /\ call_pc = "called"
    /\ returned = <<>>
    /\ manager = IdleManager

CombineResultsCall ==
    /\ call_pc = "called"
    /\ call.fn = "_combine_results"
    /\ returned' = CombineResults(call.embedding_results, call.keyword_results,
                                  call.top_k)
    /\ call_pc' = "returned"
    /\ UNCHANGED <<call, manager, exchangeVars>>

\* search_with_route once _route_aware_search has answered
FinalResultsCall ==
    /\ call_pc = "called"
    /\ call.fn = "search_with_route"
    /\ returned' = FinalResults(call.results, call.route_decision, call.top_k)
    /\ call_pc' = "returned"
    /\ UNCHANGED <<call, manager, exchangeVars>>

CalculateKeywordScoreCall ==
    /\ call_pc = "called"
    /\ call.fn = "_calculate_keyword_score"
    /\ returned' = CalculateKeywordScore(call.content, call.keywords, call.title)
    /\ call_pc' = "returned"
    /\ UNCHANGED <<call, manager, exchangeVars>>

TruncateMessagesCall ==
    /\ call_pc = "called"
    /\ call.fn = "truncate_messages"
    /\ returned' = TruncateMessages(call.messages, call.max_tokens)
    /\ call_pc' = "returned"
    /\ UNCHANGED <<call, manager, exchangeVars>>

LayerNext ==
    \/ CombineResultsCall
    \/ FinalResultsCall
    \/ CalculateKeywordScoreCall
    \/ TruncateMessagesCall

LayerSpec == LayerInit /\ [][LayerNext]_vars

-----------------------------------------------------------------------------
(* The timetable loader *)

ScheduleInit ==
    /\ NoExchange
    /\ call = NoCall
    /\ call_pc = "none"
    /\ returned = <<>>
    /\ cached_schedules = {}
    /\ exchanges = <<>>
    /\ manager = IdleManager

\* load_group_schedule up to the call of find_group_url: a cached timetable is
\* returned at once
LoadGroupScheduleCall ==
    /\ manager.pc = "idle"
    /\ \E g \in ScheduleGroups :
        IF g \in cached_schedules
        THEN manager' = [manager EXCEPT !.group = g, !.requests = 0,
                                       !.attempt = 0, !.tries = 0, !.slept = <<>>,
                                       !.last_response = "none",
                                       !.result = manager.stored[g]]
        ELSE manager' = [manager EXCEPT !.group = g, !.requests = 0,
                                       !.attempt = 0, !.tries = 0, !.slept = <<>>,
                                       !.last_response = "none",
                                       !.result = -1,
                                       !.pc = "find_group_url"]
    /\ UNCHANGED <<call, call_pc, returned, exchangeVars>>

\* _make_request_with_retry: one pass of its loop, with the sleep that
\* follows a failed request
MakeRequestWithRetry ==
    /\ manager.pc \in {"find_group_url", "parse_schedule_page"}
    /\ \E ok \in BOOLEAN :
        LET after == IF manager.pc = "find_group_url"
                     THEN "find_returned" ELSE "parse_returned"
        IN  IF ok
            THEN manager' = [manager EXCEPT !.tries = @ + 1, !.requests = @ + 1,
                                           !.last_response = "response",
                                           !.pc = after]
            ELSE IF manager.attempt < request_max_retries - 1
            THEN manager' = [manager EXCEPT !.tries = @ + 1, !.requests = @ + 1,
                                           !.slept = Append(@, RetryDelay(manager.attempt)),
                                           !.attempt = @ + 1]
            ELSE manager' = [manager EXCEPT !.tries = @ + 1, !.requests = @ + 1,
                                           !.last_response = "None",
                                           !.pc = after]
    /\ UNCHANGED <<call, call_pc, returned, exchangeVars>>

\* find_group_url once the list of groups is fetched or given up, and
\* load_group_schedule up to the call of parse_schedule_page
FindGroupUrl ==
    /\ manager.pc = "find_returned"
    /\ \E found \in BOOLEAN :
        IF manager.last_response = "response" /\ found
        THEN manager' = [manager EXCEPT !.pc = "parse_schedule_page",
                                       !.attempt = 0, !.tries = 0, !.slept = <<>>,
                                       !.last_response = "none"]
        ELSE manager' = [manager EXCEPT !.pc = "idle", !.result = 0]
    /\ UNCHANGED <<call, call_pc, returned, exchangeVars>>

\* parse_schedule_page once the page is fetched or given up, and the end of
\* load_group_schedule
ParseSchedulePage ==
    /\ manager.pc = "parse_returned"
    /\ \E parsed \in BOOLEAN, version \in Versions :
        LET schedule == IF manager.last_response = "response" /\ parsed
                        THEN version ELSE 0
            stored == CacheStore(manager.stored, manager.group, schedule)
        IN  /\ manager' = [manager EXCEPT !.pc = "idle", !.result = schedule,
                                          !.stored = stored]
            /\ cached_schedules' = {g \in ScheduleGroups : stored[g] # 0}
    /\ UNCHANGED <<call, call_pc, returned, exchanges>>
    /\ UNCHANGED <<inputs, pc, check_kind, routerVars, loopVars, validatorVars,
                   counters, response, fallback>>

ScheduleNext ==
    \/ LoadGroupScheduleCall
    \/ MakeRequestWithRetry
    \/ FindGroupUrl
    \/ ParseSchedulePage

ScheduleSpec == ScheduleInit /\ [][ScheduleNext]_vars

-----------------------------------------------------------------------------
(* Concurrent exchanges on the one assistant of the server *)

\* the number of exchanges in progress
NumExchanges == 2

ConcurrentInit ==
    /\ NoExchange
    /\ call = NoCall
    /\ call_pc = "none"
    /\ returned = <<>>
    /\ manager = IdleManager
    /\ cached_schedules \in SUBSET (GroupNames \ {"None"})
    /\ exchanges \in [1..NumExchanges ->
                         {[pc |-> "check", group_name |-> g, schedule |-> "None",
                           cache_hit |-> FALSE] : g \in GroupNames}]

\* process_query up to its first await after the availability probe: the
\* probe has answered; the fallback response, or the timetable of the group
\* is loaded and route_query is awaited. _fallback_response loads the
\* timetable for a question about the timetable.
ProcessQueryStart(e) ==
    /\ exchanges[e].pc = "check"
    /\ \E kind \in CheckKinds, fetch \in FetchKinds :
        LET g == exchanges[e].group_name
            loaded == LoadGroupSchedule(cached_schedules, g, fetch)
        IN  IF LmAvailable(kind)
            THEN /\ cached_schedules' = IF g # "None" THEN loaded.cached_schedules
                                        ELSE cached_schedules
                 /\ exchanges' =
                        [exchanges EXCEPT
                            ![e].pc = "route",
                            ![e].schedule = IF g # "None" THEN loaded.schedule ELSE "None",
                            ![e].cache_hit = g \in cached_schedules]
            ELSE \E fb \in FallbackResponses(g, cached_schedules) :
                     /\ cached_schedules' = fb.cached_schedules
                     /\ exchanges' =
                            [exchanges EXCEPT
                                ![e].pc = "done",
                                ![e].cache_hit =
                                    fb.text = "schedule_loaded" /\ g \in cached_schedules]
    /\ UNCHANGED <<inputs, pc, check_kind, routerVars, loopVars, validatorVars,
                   counters, response, fallback, layerVars>>

\* route_query has answered
RouteQueryReturns(e) ==
    /\ exchanges[e].pc = "route"
    /\ exchanges' = [exchanges EXCEPT ![e].pc = "answer"]
    /\ UNCHANGED <<inputs, pc, check_kind, routerVars, loopVars, validatorVars,
                   counters, response, fallback, layerVars, cached_schedules>>

\* the search loop and _generate_llm_response have answered
GenerateLlmResponseReturns(e) ==
    /\ exchanges[e].pc = "answer"
    /\ exchanges' = [exchanges EXCEPT ![e].pc = "done"]
    /\ UNCHANGED <<inputs, pc, check_kind, routerVars, loopVars, validatorVars,
                   counters, response, fallback, layerVars, cached_schedules>>

ConcurrentNext ==
    \E e \in 1..NumExchanges :
        \/ ProcessQueryStart(e)
        \/ RouteQueryReturns(e)
        \/ GenerateLlmResponseReturns(e)

ConcurrentSpec == ConcurrentInit /\ [][ConcurrentNext]_vars

-----------------------------------------------------------------------------
(* Properties *)

Terminated == outcome \in {"SUCCESS", "GIVE_UP"}

LoopEnded == outcome \notin {"none", "running"}

\* C1: whatever the search backend and the reasoning service answer, one run of
\* the retrieval loop makes at most 3 searches and at most 9 reasoning-service
\* calls, and it ends in SUCCESS or GIVE_UP.
C1_LoopEndsInSuccessOrGiveUp ==
    /\ searches <= 3
    /\ llm_calls <= 9
    /\ LoopEnded => Terminated

\* C2: the validator is invoked at most 3 times per question.
C2_AtMostThreeValidations == validations <= 3

C2_Witness == validations = 3 /\ searches = 3 /\ pc = "validated"

\* C3: a verdict of the reasoning service that is relevant and selects at least
\* one index in range ends the loop in SUCCESS on that attempt, with exactly the
\* hits at the in-range indices.
C3_RelevantSelectionSucceeds ==
    [][(/\ pc = "validated"
        /\ val_kind = "ok"
        /\ validation_decision.is_relevant
        /\ ~validation_decision.non_integer_index
        /\ PickHits(raw_results, validation_decision.selected_indices) # <<>>)
       => (/\ pc' = "loop_done"
           /\ outcome' = "SUCCESS"
           /\ context_results' =
                  PickHits(raw_results, validation_decision.selected_indices))]_vars

\* C4: every hit of the returned evidence is a hit of the search of the attempt
\* on which the loop ended; after a reformulation on attempt 1, a relevant
\* verdict selecting [1] on attempt 2 returns exactly hit 1 of the second search.
C4_EvidenceFromLastSearch ==
    pc = "loop_done" =>
        /\ \A i \in 1..Len(context_results) :
            /\ context_results[i] \in Range(raw_results)
            /\ context_results[i].search = searches
        /\ (/\ outcome = "SUCCESS"
            /\ searches = 2
            /\ validation_decision.selected_indices = <<1>>)
           => context_results = <<[search |-> 2, idx |-> 1, search_type |-> "routed"]>>

C4_Witness ==
    /\ pc = "loop_done"
    /\ outcome = "SUCCESS"
    /\ attempt = 2
    /\ validations = 2
    /\ context_results = <<[search |-> 2, idx |-> 1, search_type |-> "routed"]>>

\* C5: the loop returns a non-empty evidence list exactly when it ends in
\* SUCCESS; every GIVE_UP returns the empty list.
C5_NonEmptyIffSuccess ==
    pc = "loop_done" =>
        /\ Terminated
        /\ (context_results # <<>>) <=> (outcome = "SUCCESS")

C5_Witness ==
    /\ pc = "loop_done"
    /\ outcome = "GIVE_UP"
    /\ validation_decision.is_relevant
    /\ validation_decision.selected_indices # <<>>
    /\ raw_results # <<>>

ZeroHitSearch == pc = "search" /\ raw_results' = <<>>

FirstToken(query) == IF Len(query) > 1 THEN SubSeq(query, 1, 1) ELSE query

\* C6 as stated: a zero-hit search with attempts left is retried with the query
\* cut to its first token, without advancing the attempt number.
C6_ZeroHitKeepsAttempt ==
    [][(ZeroHitSearch /\ attempt < 3)
       => (/\ pc' = "search"
           /\ current_query' = FirstToken(current_query)
           /\ attempt' = attempt)]_vars

\* C6 as amended: a zero-hit search with attempts left is retried with the
\* query cut to its first token on the next attempt: it advances the attempt
\* number and uses no validation pass; on attempt 3 the loop stops with no
\* evidence.
C6_ZeroHitConsumesAttempt ==
    [][ZeroHitSearch
       => IF attempt < 3
          THEN /\ pc' = "search"
               /\ current_query' = FirstToken(current_query)
               /\ attempt' = attempt + 1
               /\ validations' = validations
          ELSE /\ pc' = "loop_done"
               /\ outcome' = "GIVE_UP"
               /\ context_results' = <<>>]_vars

C6_Witness ==
    /\ pc = "search"
    /\ query_origin = "zero_hit"
    /\ attempt = 2
    /\ searches = 1
    /\ message = <<"hto", "dekan">>
    /\ current_query = <<"hto">>

Reformulating == pc = "validated" /\ pc' = "search"

SearchAfterReformulate == pc = "search" /\ query_origin = "reformulate"

\* C7 as stated: after REFORMULATE the text the next search encodes is exactly
\* the validator's reformulated_query.
C7_EncodedIsReformulated ==
    [][/\ Reformulating => current_query' = validation_decision.reformulated_query
       /\ SearchAfterReformulate => enhanced_query' = current_query]_vars

\* the router keywords that are no word of the query, each lowercased for the
\* comparison; a keyword of several words is no word of any query
MissingKeywords(query, keywords) ==
    LET Present(kw) == \E i \in 1..Len(query) :
                           Len(kw) = 1 /\ Lower(kw[1]) = Lower(query[i])
        Absent(kw) == ~Present(kw)
    IN  SelectSeq(keywords, Absent)

\* C7 as amended: after REFORMULATE current_query is exactly the validator's
\* reformulated_query, and the text the next search encodes is that query
\* followed by the router keywords that are not among its words.
C7_EncodedIsReformulatedPlusKeywords ==
    [][/\ Reformulating => current_query' = validation_decision.reformulated_query
       /\ SearchAfterReformulate =>
              enhanced_query' = current_query \o
                  Flatten(MissingKeywords(current_query,
                                          route_decision.enhancement_keywords))]_vars

C7_Witness ==
    /\ pc = "validate"
    /\ query_origin = "reformulate"
    /\ current_query = <<"dekan", "fknt">>
    /\ enhanced_query = <<"dekan", "fknt", "kerivnyk", "kafedry">>

\* C8: when all 3 calls of a validation pass fail, whatever the kinds of
\* failure, the decision is the permissive default.
C8_FailedPassIsPermissive ==
    (pc = "validated" /\ retry_attempt = 3 /\ val_kind # "ok") =>
        validation_decision =
            [is_relevant |-> Len(raw_results) >= 1,
             selected_indices |->
                 [i \in 1..(IF Len(raw_results) < 3 THEN Len(raw_results) ELSE 3) |-> i],
             non_integer_index |-> FALSE,
             confidence |-> 30,
             needs_reformulation |-> FALSE,
             reformulated_query |-> <<>>]

\* C9 as stated: with the reasoning service unreachable for the whole exchange,
\* process_query completes having routed through the heuristic router.
C9_UnreachableRoutesHeuristically ==
    (pc = "done" /\ check_kind = "exc") =>
        (response # "none" /\ route_path = "heuristic")

\* C9 as amended: with the reasoning service unreachable for the whole
\* exchange, process_query completes with the fallback response, and neither
\* the router nor the search nor the validator is invoked.
C9_UnreachableFallsBack ==
    (pc = "done" /\ check_kind = "exc") =>
        /\ response = "fallback"
        /\ route_path = "none"
        /\ searches = 0
        /\ validations = 0
        /\ llm_calls = 0

C9_Witness == pc = "done" /\ check_kind = "exc" /\ response = "fallback"

\* C10: route_query makes at most 3 reasoning-service calls and always returns
\* a decision: the one built from the first parsed response, or the heuristic
\* one exactly when all 3 calls failed.
C10_RouteQueryAlwaysDecides ==
    /\ route_attempt <= 3
    /\ pc = "routed" =>
        /\ route_path \in {"llm", "heuristic"}
        /\ (route_path = "heuristic")
               <=> (route_attempt = 3 /\ route_kind \in {"malformed", "http", "exc"})
        /\ route_path = "llm" => route_kind \in {"ok", "partial"}
        /\ (route_path = "llm" /\ route_kind = "ok") => route_decision \in LlmRouteDecisions
        /\ route_path = "heuristic" =>
               route_decision \in HeuristicRouting(message, history, group_name)

C10_Witness ==
    pc = "routed" /\ route_path = "heuristic" /\ route_attempt = 3 /\ route_kind = "exc"

\* C11 as stated: a routing response that is valid JSON but lacks a field is
\* treated as malformed: no RouteDecision is built from it.
C11_PartialResponseFails == route_kind = "partial" => route_path # "llm"

\* C11 as amended: a routing response that is valid JSON but lacks fields
\* ends the retry loop at that call with a RouteDecision in which every
\* missing field has its default; the call is not retried.
C11_PartialResponseDefaulted ==
    [][(pc = "route" /\ route_kind' = "partial")
       => (/\ pc' = "routed"
           /\ route_path' = "llm"
           /\ route_attempt' = route_attempt
           /\ route_missing' # {}
           /\ \A f \in route_missing' : route_decision'[f] = RouteDefaults[f])]_vars

C11_Witness ==
    /\ pc = "routed"
    /\ route_kind = "partial"
    /\ route_attempt = 2
    /\ route_missing = {"search_level"}
    /\ route_decision.search_level = "general"
    /\ route_decision.search_intent = "chat"

HeuristicRouted == pc = "routed" /\ route_path = "heuristic"

\* no faculty or department in the question, none in the recent history, and
\* no group of a technical faculty
NoSignal ==
    /\ ExtractEntitiesFromText(message) = <<>>
    /\ HistoryContext(history).scope = "None"
    /\ ~(group_name # "None" /\ GroupMatches(group_name))

\* C12: a heuristic RouteDecision has confidence 0.5 when no signal determined
\* the scope and a higher one otherwise: 0.95 or 0.98 for a faculty or
\* department of the question, 0.70 or 0.75 for history context, 0.60 for a
\* group match.
C12_ConfidenceFollowsSignal ==
    HeuristicRouted =>
        /\ NoSignal => route_decision.confidence = 50
        /\ ~NoSignal =>
               /\ route_decision.confidence > 50
               /\ route_decision.confidence =
                      HeuristicScope(message, history, group_name).confidence

\* C13: every heuristic RouteDecision has confidence exactly 0.5, whichever
\* signal determined its scope.
C13_HeuristicConfidenceIsHalf == HeuristicRouted => route_decision.confidence = 50

C13_Witness ==
    /\ HeuristicRouted
    /\ message = <<"IPZ", "kontakty">>
    /\ route_decision.search_level = "department"
    /\ route_decision.target_entity = "IPZ"
    /\ route_decision.confidence = 50

\* scope, level and target entity that an entity stands for
ScopeOfEntity(e) ==
    IF e.type = "faculty"
    THEN <<e.code, "faculty", "None">>
    ELSE <<e.faculty_code, "department", e.code>>

\* the entities found in the last 6 messages of the history
LastSixEntities ==
    LET first == IF Len(history) > 6 THEN Len(history) - 5 ELSE 1
    IN  ExtractEntitiesFromText(
            Flatten([i \in 1..(Len(history) - first + 1) |->
                        history[first + i - 1].content]))

C15_RouteDecisionWellFormed ==
    pc = "routed" =>
        /\ route_decision.confidence \in 0..100
        /\ route_decision.search_level \in {"faculty", "department", "general"}
        /\ route_decision.search_intent \in
               {"info", "schedule", "news", "contacts", "events"}

\* C16: the request the router sends to the reasoning service holds at most
\* the last 6 messages of the history.
C16_RequestHoldsLastSix ==
    (pc \in {"route", "routed"} /\ route_kind # "none") =>
        /\ Len(request_history) <= 6
        /\ \A i \in 1..Len(request_history) :
               request_history[i] = history[Len(history) - Len(request_history) + i]

\* a word of the question is one of the listed words
HasWordIn(query, words) == \E i \in 1..Len(query) : Lower(query[i]) \in words

\* C17: on the heuristic path needs_database_search is false exactly when the
\* question has at most 3 words, one of them a greeting word and none of them
\* an interrogative word; in every other case it is true.
C17_NeedsSearchUnlessGreeting ==
    HeuristicRouted =>
        (route_decision.needs_database_search
            <=> ~(/\ Len(message) <= 3
                  /\ HasWordIn(message, greeting_words)
                  /\ ~HasWordIn(message, question_words)))

\* the terms of the synonym table for the keys found in the question
SynonymTerms(query) ==
    UNION {Range(semantic_expansions(semantic_key_order[i])) :
               i \in {j \in 1..Len(semantic_key_order) :
                          Contains(query, semantic_key_order[j])}}

\* the boilerplate terms of the intent of the question
BoilerplateTerms(query) == Range(intent_keywords(DetectIntent(query)))

NoDuplicates(list) == \A i, j \in 1..Len(list) : i # j => list[i] # list[j]

\* C18 as stated: the heuristic enhancement_keywords have no duplicates, at
\* most 5 terms, and are made of at most 3 terms of the synonym table and at
\* most 3 boilerplate terms of the intent.
C18_AtMostThreeSynonymTerms ==
    HeuristicRouted =>
        LET kws == route_decision.enhancement_keywords
            terms == Range(kws)
        IN  /\ NoDuplicates(kws)
            /\ Len(kws) <= 5
            /\ terms \subseteq SynonymTerms(message) \cup BoilerplateTerms(message)
            /\ Cardinality(terms \ BoilerplateTerms(message)) <= 3
            /\ Cardinality(terms \ SynonymTerms(message)) <= 3

\* C18 amended: the heuristic enhancement_keywords have no duplicates, at most
\* 5 terms, and every term is one of the first 3 synonyms of a key of the
\* synonym table found in the question (3 for each such key, not 3 in all)
\* or one of the 3 boilerplate terms of the intent; the list has 5 terms
\* whenever that many distinct terms were collected.
C18_ThreeSynonymTermsPerKey ==
    HeuristicRouted =>
        LET kws == route_decision.enhancement_keywords
            collected == SynonymTerms(message) \cup BoilerplateTerms(message)
        IN  /\ NoDuplicates(kws)
            /\ Len(kws) <= 5
            /\ Range(kws) \subseteq collected
            /\ \A i \in 1..Len(semantic_key_order) :
                   Len(semantic_expansions(semantic_key_order[i])) <= 3
            /\ Len(intent_keywords(route_decision.search_intent)) <= 3
            /\ (Cardinality(collected) >= 5 => Len(kws) = 5)
            /\ (Cardinality(collected) < 5 => Range(kws) = collected)

\* two keys of the synonym table are found and four of the five terms kept
\* come from the synonym table alone
C18_Witness ==
    /\ HeuristicRouted
    /\ message = TwoKeyMessage
    /\ Len(route_decision.enhancement_keywords) = 5
    /\ Cardinality(Range(route_decision.enhancement_keywords)
                       \ BoilerplateTerms(message)) = 4

\* C19: heuristic routing is deterministic: for one question, history and
\* group there is a single RouteDecision it can return, enhancement_keywords
\* in the same order included.
C19_HeuristicRoutingDeterministic ==
    HeuristicRouted =>
        HeuristicRouting(message, history, group_name) = {route_decision}

\* C20: on every search of the loop the vector search and the lexical scorer
\* both run and the list handed to the validator is their fusion: each hit
\* the validator receives carries an origin the fusion gives (embedding,
\* keyword or hybrid).
C20_ValidatorGetsFusedHits ==
    pc = "validate" =>
        \A i \in 1..Len(raw_results) :
            raw_results[i].search_type \in combined_search_types

\* a routed search in which the encoder or the store raised
FailedSearch == pc = "search" /\ search_kind' \in {"encoder_error", "store_error"}

\* C21: an error of the encoder or of the store during a routed search gives
\* the orchestrator an empty hit list and no exception, and the orchestrator
\* goes on as after a search without hits: it gives up on the last attempt and
\* otherwise searches again with the first token on the next attempt, with no
\* validation call.
C21_SearchErrorIsZeroHit ==
    [][FailedSearch =>
        /\ raw_results' = <<>>
        /\ outcome' # "RAISED"
        /\ validations' = validations
        /\ IF attempt = MAX_ATTEMPTS
           THEN pc' = "loop_done" /\ outcome' = "GIVE_UP" /\ context_results' = <<>>
           ELSE /\ pc' = "search"
                /\ attempt' = attempt + 1
                /\ current_query' = FirstToken(current_query)]_vars

\* both kinds of error have been met: a store error on the second attempt
\* after an encoder error on the first
C21_Witness ==
    /\ pc = "search"
    /\ attempt = 3
    /\ searches = 2
    /\ search_kind = "store_error"
    /\ raw_results = <<>>

CombineResultsReturned == call_pc = "returned" /\ call.fn = "_combine_results"

\* the places of a document id in a list of hits
PlacesOf(id, list) == {i \in 1..Len(list) : list[i].id = id}

\* C22: the fused list holds no document id twice; a vector hit at 0-based
\* rank r with distance d is seeded with max(0, (2 - d) * 50) +
\* max(0, (10 - r) * 5); a lexical hit of score s adds 2 * s to the entry of
\* its id and marks it hybrid when the id is there, and otherwise enters with
\* 3 * s and lexical origin; the list holds every id, up to top_k.
C22_FusedScores ==
    CombineResultsReturned =>
        LET emb == call.embedding_results
            kw == call.keyword_results
            ids == {emb[i].id : i \in 1..Len(emb)} \cup {kw[i].id : i \in 1..Len(kw)}
            Seed(r, d) == (IF (200 - d) \div 2 > 0 THEN (200 - d) \div 2 ELSE 0)
                          + (IF (10 - r) * 5 > 0 THEN (10 - r) * 5 ELSE 0)
        IN  /\ \A i, j \in 1..Len(returned) :
                   returned[i].id = returned[j].id => i = j
            /\ Len(returned) =
                   (IF Cardinality(ids) < call.top_k THEN Cardinality(ids) ELSE call.top_k)
            /\ \A n \in 1..Len(returned) :
                   LET hit == returned[n]
                       e == PlacesOf(hit.id, emb)
                       k == PlacesOf(hit.id, kw)
                   IN  \/ /\ e # {} /\ k = {}
                          /\ \E i \in e :
                                 hit.relevance_score = Seed(i - 1, emb[i].distance)
                          /\ hit.search_type = "embedding"
                       \/ /\ e # {} /\ k # {}
                          /\ \E i \in e, j \in k :
                                 hit.relevance_score =
                                     Seed(i - 1, emb[i].distance) + 2 * kw[j].relevance_score
                          /\ hit.search_type = "hybrid"
                       \/ /\ e = {} /\ k # {}
                          /\ \E j \in k : hit.relevance_score = 3 * kw[j].relevance_score
                          /\ hit.search_type = "keyword"

\* a fused list with a hit of each origin
C22_Witness ==
    /\ CombineResultsReturned
    /\ {returned[n].search_type : n \in 1..Len(returned)} = combined_search_types

FinalResultsReturned == call_pc = "returned" /\ call.fn = "search_with_route"

\* the place a returned hit had before the sort: in the dict of
\* _combine_results (embedding hits, then the keyword hits that were new), or
\* in the list handed to _rerank_with_route_bonuses
PriorPlace(hit) ==
    IF call.fn = "_combine_results"
    THEN IF PlacesOf(hit.id, call.embedding_results) # {}
         THEN CHOOSE i \in PlacesOf(hit.id, call.embedding_results) : TRUE
         ELSE Len(call.embedding_results)
                  + (CHOOSE i \in PlacesOf(hit.id, call.keyword_results) : TRUE)
    ELSE CHOOSE i \in PlacesOf(hit.id, call.results) : TRUE

\* C23: the list _combine_results returns and the list search_with_route
\* returns are in non-increasing relevance_score, hits of equal score keep
\* their prior order, and the list holds at most top_k hits; the hits a:10,
\* b:30, c:5 with the bonus on b come back as b, a, c.
C23_RankedListsSortedStable ==
    (CombineResultsReturned \/ FinalResultsReturned) =>
        /\ Len(returned) <= call.top_k
        /\ \A i, j \in 1..Len(returned) :
               i < j =>
                   /\ returned[i].relevance_score >= returned[j].relevance_score
                   /\ (returned[i].relevance_score = returned[j].relevance_score
                          => PriorPlace(returned[i]) < PriorPlace(returned[j]))
        /\ (/\ FinalResultsReturned
            /\ call.results = ExampleResults
            /\ call.route_decision.search_scope = "FKNT"
            /\ call.top_k >= 3)
               => <<returned[1].id, returned[2].id, returned[3].id>> = <<"b", "a", "c">>

\* the bonus made the scores of two routed hits equal, and the hit that was
\* first stays first
C23_Witness ==
    /\ FinalResultsReturned
    /\ Len(returned) = 2
    /\ returned[1].relevance_score = returned[2].relevance_score
    /\ call.results[1].relevance_score > call.results[2].relevance_score
    /\ returned[1].id = call.results[1].id

\* C24: re-ranking adds to the score of each hit 0.1 when the faculty of the
\* hit is the search_scope of the route, plus 0.1 when the department of the
\* hit is the target_entity of the route, and nothing else; no score
\* decreases.
C24_BonusPerMatchingField ==
    FinalResultsReturned =>
        \A n \in 1..Len(returned) :
            LET hit == returned[n]
                before == call.results[CHOOSE i \in PlacesOf(hit.id, call.results) : TRUE]
            IN  /\ hit.relevance_score =
                       before.relevance_score
                           + (IF before.faculty = call.route_decision.search_scope
                              THEN 10 ELSE 0)
                           + (IF before.department = call.route_decision.target_entity
                              THEN 10 ELSE 0)
                /\ hit.relevance_score >= before.relevance_score

KeywordScoreReturned == call_pc = "returned" /\ call.fn = "_calculate_keyword_score"

\* the sum of a list of numbers
RECURSIVE SumOf(_)
SumOf(list) == IF list = <<>> THEN 0 ELSE Head(list) + SumOf(Tail(list))

\* the places at which a keyword occurs in a text
Occurrences(keyword, text) == {i \in 1..Len(text) : OccursAt(keyword, text, i)}

\* a word of the text is a fuzzy match of the keyword
HasFuzzyWord(keyword, text) ==
    \E w \in Range(Split(text)) : 200 * Lcs(keyword, w) > 85 * (Len(keyword) + Len(w))

\* C25 as stated: the score is the sum, over the keywords, of 30 for a keyword
\* that is a substring of the title, 3 for each of its occurrences in the
\* body, 8 when a title word is a fuzzy match and 4 when a body word is one,
\* for keywords of every length.
C25_ScoreForEveryLength ==
    KeywordScoreReturned =>
        LET Part(kw) ==
                (IF Occurrences(kw, call.title) # {} THEN 30 ELSE 0)
                + 3 * Cardinality(Occurrences(kw, call.content))
                + (IF HasFuzzyWord(kw, call.title) THEN 8 ELSE 0)
                + (IF HasFuzzyWord(kw, call.content) THEN 4 ELSE 0)
        IN  returned = SumOf([i \in 1..Len(call.keywords) |-> Part(call.keywords[i])])

\* C25 amended: the same sum, in which the two fuzzy terms (8 and 4) count
\* only for a keyword of more than 3 characters.
C25_FuzzyAboveThreeCharacters ==
    KeywordScoreReturned =>
        LET Part(kw) ==
                (IF Occurrences(kw, call.title) # {} THEN 30 ELSE 0)
                + 3 * Cardinality(Occurrences(kw, call.content))
                + (IF Len(kw) > 3 /\ HasFuzzyWord(kw, call.title) THEN 8 ELSE 0)
                + (IF Len(kw) > 3 /\ HasFuzzyWord(kw, call.content) THEN 4 ELSE 0)
        IN  returned = SumOf([i \in 1..Len(call.keywords) |-> Part(call.keywords[i])])

\* a keyword of 3 characters that is a word of the title and of the body, next
\* to none: 2 * (30 + 2 * 3), with no fuzzy term
C25_Witness ==
    /\ KeywordScoreReturned
    /\ call.keywords = <<nau, nau>>
    /\ call.title = nau
    /\ call.content = nau \o space \o nau
    /\ returned = 72

\* C26: while exchanges are processed, under any interleaving, the timetable
\* cache is read and never written, so that no exchange writes state another
\* exchange reads.
C26_CacheNeverWritten == [][cached_schedules' = cached_schedules]_vars

\* C27: with either backend, a call of the reasoning service by the router or
\* by the validator that never returns is ended by a timeout of that call, so
\* that no exchange is left waiting on it.
C27_HungCallIsAbandoned == pc # "hung"

\* the route asked for no search and the exchange is past that decision
SearchSkipped ==
    /\ pc \in {"generate", "done"}
    /\ route_path # "none"
    /\ ~route_decision.needs_database_search

\* C28 as stated: when the RouteDecision has needs_database_search false,
\* process_query issues no database search and no validation call and the
\* answer is generated with an empty retrieval context.
C28_NoSearchAtAll ==
    SearchSkipped =>
        /\ searches = 0
        /\ ~fallback.db_search
        /\ validations = 0
        /\ llm_calls = 0
        /\ context_results = <<>>

\* C28 amended: when the RouteDecision has needs_database_search false,
\* process_query issues no route-aware search and no validation call and the
\* answer is generated with an empty retrieval context; the store is searched
\* only when the generation of the answer fails, by the fallback response.
C28_NoRoutedSearch ==
    SearchSkipped =>
        /\ searches = 0
        /\ validations = 0
        /\ llm_calls = 0
        /\ context_results = <<>>
        /\ (fallback.db_search => pc = "done" /\ response = "fallback")
        /\ (response = "llm" => fallback = NoFallback)

\* the search was skipped, the generation failed and the fallback response
\* searched the store
C28_Witness ==
    /\ SearchSkipped
    /\ pc = "done"
    /\ response = "fallback"
    /\ fallback.db_search
    /\ searches = 0

\* the availability check reported the LLM unavailable
LlmUnavailable == check_kind \in {"bad", "exc"}

C30_NeverPropagatesException ==
    /\ response \in {"none", "llm", "fallback"}
    /\ (pc = "done" => response \in {"llm", "fallback"})

\* the validator has answered and the answer is no success
NonSuccessPass ==
    /\ pc = "validated"
    /\ ~(validation_decision.is_relevant /\ selected_results # <<>>)

\* the verdict offers a reformulation
OffersReformulation ==
    /\ validation_decision.needs_reformulation
    /\ validation_decision.reformulated_query # <<>>

\* C31: after a validation pass that is no success, the orchestrator searches
\* again, with the next attempt number, if and only if the verdict has
\* needs_reformulation, a non-empty reformulated_query and the attempt number
\* is below 3; a verdict lacking either of the first two ends the loop at
\* once in GIVE_UP, whatever the attempt number.
C31_ReformulateIffOfferedAndAttemptsRemain ==
    [][NonSuccessPass =>
        /\ (pc' = "search" /\ attempt' = attempt + 1)
              <=> (OffersReformulation /\ attempt < 3)
        /\ pc' # "search" => (pc' = "loop_done" /\ outcome' = "GIVE_UP")
        /\ ~OffersReformulation =>
              (pc' = "loop_done" /\ outcome' = "GIVE_UP" /\ attempt' = attempt)
      ]_vars

\* the loop gave up on attempt 1 on a verdict that asks for a reformulation
\* and gives no query
C31_Witness ==
    /\ pc = "loop_done"
    /\ outcome = "GIVE_UP"
    /\ attempt = 1
    /\ validations = 1
    /\ validation_decision.needs_reformulation
    /\ validation_decision.reformulated_query = <<>>

\* a validation pass starts
ValidationStarts == pc # "validate" /\ pc' = "validate"

\* the search of the attempt that follows attempt k >= 1 is about to start
NextSearchStarts == attempt >= 1 /\ pc' = "search" /\ attempt' = attempt + 1

\* C32 as stated: search and validation strictly alternate: a validation pass
\* starts only after the search of the same attempt has returned a non-empty
\* hit list, and the search of attempt k+1 starts only after the validation
\* pass of attempt k has returned, with the query that pass produced.
C32_StrictAlternation ==
    [][/\ ValidationStarts =>
              (pc = "search" /\ raw_results' # <<>> /\ attempt' = attempt)
       /\ NextSearchStarts =>
              /\ pc = "validated"
              /\ current_query' = validation_decision.reformulated_query]_vars

\* C32 as amended: the loop is sequential: a validation pass starts only
\* after the search of the same attempt has returned a non-empty hit list;
\* the search of attempt k+1 starts either after the validation pass of
\* attempt k has returned, with the query that pass produced, or after the
\* search of attempt k has returned no hit, with no validation pass and the
\* query cut to its first token; no validation call is under way during a
\* search and no search during a validation pass.
C32_SequentialLoop ==
    [][/\ ValidationStarts =>
              (pc = "search" /\ raw_results' # <<>> /\ attempt' = attempt)
       /\ NextSearchStarts =>
              \/ /\ pc = "validated"
                 /\ current_query' = validation_decision.reformulated_query
                 /\ searches' = searches
              \/ /\ pc = "search"
                 /\ raw_results' = <<>>
                 /\ validations' = validations
                 /\ current_query' = FirstToken(current_query)
       /\ pc = "search" => (retry_attempt = 0 /\ val_kind = "none")
       /\ pc \in {"validate", "validated"} =>
              (searches' = searches /\ raw_results' = raw_results
               /\ raw_results # <<>>)]_vars

\* the third search followed one search without hits and one validation pass
\* that asked for a reformulation
C32_Witness ==
    /\ pc = "validate"
    /\ attempt = 3
    /\ searches = 3
    /\ validations = 2
    /\ query_origin = "reformulate"

\* the loop has ended and every search of the exchange returned no hit
EverySearchEmpty ==
    /\ pc \in {"loop_done", "done"}
    /\ outcome \notin {"none", "running"}
    /\ empty_searches = searches

\* C33: when every search of an exchange returns no hit, the orchestrator
\* makes exactly 3 searches, never invokes the validator, and ends in GIVE_UP
\* with no evidence.
C33_AllEmptySearchesGiveUp ==
    EverySearchEmpty =>
        /\ searches = 3
        /\ (pc = "loop_done" => attempt = 3)
        /\ validations = 0
        /\ llm_calls = 0
        /\ validation_decision = NoDecision
        /\ outcome = "GIVE_UP"
        /\ context_results = <<>>

\* three searches without hits, the query cut to its first token
C33_Witness ==
    /\ EverySearchEmpty
    /\ pc = "loop_done"
    /\ empty_searches = 3
    /\ message = <<"hto", "dekan">>
    /\ query_origin = "zero_hit"

\* validate_and_select has been called and has not yet returned
ValidatorInvoked == pc = "validate"

C35_ValidatorBudgetIsOrchestratorBudget ==
    pc \in {"validate", "validated"} =>
        /\ attempt <= validator_max_retries
        /\ (attempt < validator_max_retries) <=> (attempt < MAX_ATTEMPTS)

\* C36: search_with_route appends to the query only the enhancement keywords
\* that are not yet in it, so the text it encodes holds no enhancement
\* keyword twice, whether the keyword is one word or several.
C36_NoKeywordTwiceInEncodedText ==
    enhanced_query # <<>> =>
        \A i \in 1..Len(route_decision.enhancement_keywords) :
            CountFrom(route_decision.enhancement_keywords[i], enhanced_query, 1) <= 1

\* C37 as stated: a heuristic RouteDecision always has enhancement_keywords,
\* the boilerplate terms of the intent among them, so the initial query of the
\* orchestrator is the keywords joined and never the text of the question.
C37_BoilerplateAlwaysIncluded ==
    HeuristicRouted =>
        /\ route_decision.enhancement_keywords # <<>>
        /\ BoilerplateTerms(message) \subseteq Range(route_decision.enhancement_keywords)
        /\ InitialQuery(route_decision, message)
               = Flatten(route_decision.enhancement_keywords)
        /\ InitialQuery(route_decision, message) # message

\* C37 as amended: a heuristic RouteDecision always has between 1 and 5
\* enhancement_keywords, since every intent contributes 3 boilerplate terms
\* to the terms collected, of which any 5 are kept; so the initial query of
\* the orchestrator is the keywords joined and never the text of the question.
C37_HeuristicKeywordsNeverEmpty ==
    HeuristicRouted =>
        /\ route_decision.enhancement_keywords # <<>>
        /\ Len(route_decision.enhancement_keywords) <= 5
        /\ Cardinality(BoilerplateTerms(message)) = 3
        /\ Len(route_decision.enhancement_keywords) < 5 =>
               BoilerplateTerms(message) \subseteq Range(route_decision.enhancement_keywords)
        /\ InitialQuery(route_decision, message)
               = Flatten(route_decision.enhancement_keywords)
        /\ InitialQuery(route_decision, message) # message

\* five keywords are kept and a boilerplate term of the intent is not among
\* them
C37_Witness ==
    /\ HeuristicRouted
    /\ Len(route_decision.enhancement_keywords) = 5
    /\ ~(BoilerplateTerms(message) \subseteq Range(route_decision.enhancement_keywords))
    /\ InitialQuery(route_decision, message) # message

\* a load_group_schedule call begins
LoadBegins == manager.pc = "idle" /\ manager' # manager

\* a load_group_schedule call that went to the site returns
LoadReturns == manager.pc # "idle" /\ manager'.pc = "idle"

\* C38: load_group_schedule caches only the timetables it parsed: once a load
\* for a group has succeeded, every later call for the group returns the
\* cached timetable with no HTTP request, and the entry is never replaced or
\* removed; a load that fails (no URL, no page, page not parsed) stores
\* nothing, so the next call for the group goes to the site again.
C38_CacheHoldsParsedSchedulesOnly ==
    [][/\ cached_schedules = {g \in ScheduleGroups : manager.stored[g] # 0}
       /\ \A g \in ScheduleGroups :
              manager.stored[g] # 0 => manager'.stored[g] = manager.stored[g]
       /\ LoadBegins =>
              IF manager'.group \in cached_schedules
              THEN /\ manager'.pc = "idle"
                   /\ manager'.result = manager.stored[manager'.group]
                   /\ manager'.requests = 0
                   /\ manager'.stored = manager.stored
              ELSE /\ manager'.pc = "find_group_url"
                   /\ manager'.requests = 0
       /\ LoadReturns =>
              IF manager'.result = 0
              THEN /\ manager'.stored = manager.stored
                   /\ cached_schedules' = cached_schedules
              ELSE /\ manager.pc = "parse_returned"
                   /\ manager.last_response = "response"
                   /\ manager'.stored =
                          [manager.stored EXCEPT ![manager.group] = manager'.result]
                   /\ cached_schedules' = cached_schedules \cup {manager.group}
      ]_vars

\* a call for a cached group returned the cached timetable with no request,
\* and the other group, whose load failed, is not cached
C38_Witness ==
    /\ manager.pc = "idle"
    /\ manager.group = "ir-21"
    /\ manager.requests = 0
    /\ manager.result = 1
    /\ manager.stored = [g \in ScheduleGroups |-> IF g = "ir-21" THEN 1 ELSE 0]
    /\ cached_schedules = {"ir-21"}

TruncateMessagesReturned == call_pc = "returned" /\ call.fn = "truncate_messages"

\* the last n messages of a list
Suffix(list, n) == SubSeq(list, Len(list) - n + 1, Len(list))

\* the tokens of a list of messages, at len(content) // 4 each
TokensOf(list) == SumOf([i \in 1..Len(list) |-> Len(list[i].content) \div 4])

\* C40: truncate_messages returns the longest suffix of messages, in the
\* original order, whose tokens, len(content) // 4 for each message, are at
\* most max_tokens: every message when all fit, and the empty list when the
\* last message alone does not fit.
C40_LongestFittingSuffix ==
    TruncateMessagesReturned =>
        LET messages == call.messages
            fitting == {n \in 0..Len(messages) :
                            TokensOf(Suffix(messages, n)) <= call.max_tokens}
        IN  /\ \E n \in fitting :
                   /\ returned = Suffix(messages, n)
                   /\ \A m \in fitting : m <= n
            /\ TokensOf(messages) <= call.max_tokens => returned = messages
            /\ (messages # <<>> /\ TokensOf(Suffix(messages, 1)) > call.max_tokens)
                   => returned = <<>>

\* the last two of three messages are kept: the first does not fit, though it
\* is shorter than the second
C40_Witness ==
    /\ TruncateMessagesReturned
    /\ Len(call.messages) = 3
    /\ call.max_tokens = 11
    /\ Len(call.messages[1].content) = 9
    /\ Len(call.messages[2].content) = 40
    /\ returned = Suffix(call.messages, 2)

====
